---- MODULE Spec2Model ----
(***************************************************************************)
(* A model of the diarization-aligned transcription pipeline of            *)
(* src/engine.py: run_diarization and transcribe_file executed by several  *)
(* orchestrator threads that share the module globals model_lock and       *)
(* diarization_pipeline and the on-disk diarization cache.                 *)
(*                                                                         *)
(* Times are whole seconds.  A text is a sequence of word tokens (the      *)
(* space-joined string of the source, token by token).                     *)
(***************************************************************************)
EXTENDS Integers, Sequences, FiniteSets, TLC

\* ------------------------------------------------------------------ bounds

\* The orchestrator threads that may run at the same time.
Threads == {"t1", "t2"}

\* The audio files of the uploads folder.  They share their stem.
Files == {"a.mp3", "a.wav"}

\* The chunk counts the progress formula is checked for on its own.
MaxChunks == 12

\* The timelines the chunk planner is run on by itself: at most MaxTurns
\* turns between the instants of TimeGrid.
MaxTurns == 3
TimeGrid == {0, 5, 9, 35, 40, 70}

\* The timelines and the words get_speaker_for_word is run on by itself.
ResolverGrid == {0, 10, 20, 30}
WordGrid == {5, 9, 10, 11, 12, 25}

\* The live view run by itself: at most MaxPasses chunks give words, each
\* chunk at most one word, said by one of RawLabels.
MaxPasses == 4
RawLabels == {"SPEAKER_00", "SPEAKER_01", "SPEAKER_02"}

\* The server: the file that is uploaded (again and again), the
\* orchestrator threads that may be alive at the same time, the chunks of
\* an upload, and the names a client renames a speaker to.
TaskIds == {"a.mp3"}
Workers == {"w1", "w2"}
ServerChunks == 2
SpeakerNames == {<< "Alice" >>, << "Bob" >>}
\* The segment_index of a request: in range, or one off at either end.
SegmentIndexes == (0 - 1)..ServerChunks

\* The durations (whole seconds) the fallback planner is run on.
MaxDuration == 95

NoThread == "free"
NoFile == "none"

\* ------------------------------------------------------- program constants

\* elapsed >= 30 closes a chunk; the fallback chunks are 30 s wide.
ChunkTarget == 30

\* ------------------------------------------------------------ arithmetic

Max(a, b) == IF a >= b THEN a ELSE b
Min(a, b) == IF a <= b THEN a ELSE b
Abs(a) == IF a >= 0 THEN a ELSE 0 - a

\* ------------------------------------------------------ the collaborators

\* file_path.stem
Stem(f) == CASE f = "a.mp3" -> "a"
             [] f = "a.wav" -> "a"
             [] f = "b.mp3" -> "b"

Stems == {Stem(f) : f \in Files}

Turn(s, e, sp) == [start |-> s, end |-> e, speaker |-> sp]

\* What the diarization pipeline answers for each file: the turns of
\* annotation.itertracks.  The second turn of a.wav is a malformed
\* zero-length turn.
DiarizeOutput(f) ==
    CASE f = "a.mp3" -> << Turn(0, 20, "SPEAKER_01"), Turn(20, 45, "SPEAKER_00"),
                           Turn(45, 50, "SPEAKER_01") >>
      [] f = "a.wav" -> << Turn(0, 30, "SPEAKER_00"), Turn(32, 32, "SPEAKER_01") >>

\* What ffprobe answers for each file.
Duration(f) == CASE f = "a.mp3" -> 50
                 [] f = "a.wav" -> 30

Word(w, s, e) == [word |-> w, start |-> s, end |-> e]

\* What model.transcribe answers for the chunk of f starting at start_time:
\* result["segments"], times relative to the chunk.  A segment without
\* words carries its text only; a word of blanks strips to nothing.
TranscribeOutput(f, start_time) ==
    IF start_time = 0
    THEN << [text |-> "", start |-> 0, end |-> 4,
             words |-> << Word("hello", 0, 2), Word(" ", 2, 2), Word("there", 2, 4) >>] >>
    ELSE << [text |-> "Korrektor", start |-> 1, end |-> 3, words |-> << >>] >>

\* str.strip() on the tokens the transcriber answers.
Strip(w) == IF w = " " THEN "" ELSE w

\* ------------------------------------------------------ OverlapResolver

\* The same loop taking a turn of equal overlap over the one it has.
RECURSIVE BestSpeakerLast(_, _, _, _, _, _)
BestSpeakerLast(timeline, word_start, word_end, k, best_overlap, best_speaker) ==
    IF k > Len(timeline) THEN best_speaker
    ELSE LET entry == timeline[k]
             overlap == (IF word_end <= entry.end THEN word_end ELSE entry.end)
                        - (IF word_start >= entry.start THEN word_start ELSE entry.start)
         IN  IF overlap > 0 /\ overlap >= best_overlap
             THEN BestSpeakerLast(timeline, word_start, word_end, k + 1, overlap, entry.speaker)
             ELSE BestSpeakerLast(timeline, word_start, word_end, k + 1, best_overlap,
                                  best_speaker)

\* The loop of get_speaker_for_word over timeline[k..]: the speaker of the
\* first turn of strictly greatest positive overlap, "" (None) if there is
\* none.
RECURSIVE BestSpeaker(_, _, _, _, _, _)
BestSpeaker(timeline, word_start, word_end, k, best_overlap, best_speaker) ==
    IF k > Len(timeline) THEN best_speaker
    ELSE LET entry == timeline[k]
             overlap_start == Max(word_start, entry.start)
             overlap_end == Min(word_end, entry.end)
             overlap == overlap_end - overlap_start
         IN  IF overlap_end > overlap_start /\ overlap > best_overlap
             THEN BestSpeaker(timeline, word_start, word_end, k + 1, overlap, entry.speaker)
             ELSE BestSpeaker(timeline, word_start, word_end, k + 1, best_overlap, best_speaker)

\* Twice the key of the nearest-turn fallback: min(|start - mid|, |end - mid|)
\* with mid = (word_start + word_end) / 2.
NearKey2(s, word_start, word_end) ==
    Min(Abs(2 * s.start - (word_start + word_end)),
        Abs(2 * s.end - (word_start + word_end)))

\* The first turn of the timeline, whatever its key.
NearestIsFirst(timeline, word_start, word_end) == timeline[1]

\* min(timeline, key=...): the first turn of least key.
Nearest(timeline, word_start, word_end) ==
    LET k == CHOOSE i \in 1..Len(timeline) :
                 /\ \A j \in 1..Len(timeline) :
                        NearKey2(timeline[i], word_start, word_end)
                            <= NearKey2(timeline[j], word_start, word_end)
                 /\ \A j \in 1..(i - 1) :
                        NearKey2(timeline[j], word_start, word_end)
                            > NearKey2(timeline[i], word_start, word_end)
    IN  timeline[k]

get_speaker_for_word(timeline, word_start, word_end) ==
    IF timeline = << >> THEN "Unknown"
    ELSE LET best == BestSpeaker(timeline, word_start, word_end, 1, 0, "")
         IN  IF best # "" THEN best
             ELSE Nearest(timeline, word_start, word_end).speaker

\* --------------------------------------------------------- ChunkPlanner

Chunk(s, e) == [start |-> s, end |-> e]

\* The walk over timeline[k..] with the current chunk starting at
\* chunk_start_time.
\* One chunk for each of timeline[k..].
PlanFromEachTurn(timeline, k, chunk_start_time) ==
    [i \in 1..(Len(timeline) - k + 1) |->
        Chunk(timeline[k + i - 1].start, timeline[k + i - 1].end)]

RECURSIVE PlanFrom(_, _, _)
PlanFrom(timeline, k, chunk_start_time) ==
    IF k > Len(timeline) THEN << >>
    ELSE LET entry == timeline[k]
             elapsed == entry.end - chunk_start_time
             is_last == (k = Len(timeline))
         IN  IF elapsed >= ChunkTarget \/ is_last
             THEN << Chunk(chunk_start_time, entry.end) >>
                  \o (IF is_last THEN << >>
                      ELSE PlanFrom(timeline, k + 1, timeline[k + 1].start))
             ELSE PlanFrom(timeline, k + 1, chunk_start_time)

\* Chunks of the fixed width over the span of the timeline.
DiarizationChunksByWidth(timeline) ==
    IF timeline = << >> THEN << >>
    ELSE LET first == timeline[1].start
             last == timeline[Len(timeline)].end
         IN  [i \in 1..((last - first + ChunkTarget - 1) \div ChunkTarget) |->
                 [start |-> first + (i - 1) * ChunkTarget,
                  end |-> IF first + i * ChunkTarget <= last
                          THEN first + i * ChunkTarget ELSE last]]

DiarizationChunks(timeline) ==
    IF timeline = << >> THEN << >> ELSE PlanFrom(timeline, 1, timeline[1].start)

\* math.ceil(duration / 30) for a whole number of seconds.
FloorDiv(a, b) == a \div b
CeilDiv(a, b) == (a + b - 1) \div b

FallbackChunks(duration) ==
    [i \in 1..CeilDiv(duration, ChunkTarget) |->
        Chunk((i - 1) * ChunkTarget, Min(i * ChunkTarget, duration))]

\* --------------------------------------------------- words of one chunk

SpeakerWord(w, s, e, raw) == [word |-> w, start |-> s, end |-> e, speaker_raw |-> raw]

RECURSIVE WordsOfSegment(_, _, _, _)
WordsOfSegment(words, k, start_time, timeline) ==
    IF k > Len(words) THEN << >>
    ELSE LET w == words[k]
             word_text == Strip(w.word)
             abs_start == w.start + start_time
             abs_end == w.end + start_time
         IN  (IF word_text = "" THEN << >>
              ELSE << SpeakerWord(word_text, abs_start, abs_end,
                                  get_speaker_for_word(timeline, abs_start, abs_end)) >>)
             \o WordsOfSegment(words, k + 1, start_time, timeline)

\* The speaker-tagged words of result["segments"][k..], in absolute time.
RECURSIVE ExtractWords(_, _, _, _)
ExtractWords(segments, k, start_time, timeline) ==
    IF k > Len(segments) THEN << >>
    ELSE LET segment == segments[k]
             abs_start == segment.start + start_time
             abs_end == segment.end + start_time
         IN  (IF segment.words = << >>
              THEN IF Strip(segment.text) = "" THEN << >>
                   ELSE << SpeakerWord(Strip(segment.text), abs_start, abs_end,
                                       get_speaker_for_word(timeline, abs_start, abs_end)) >>
              ELSE WordsOfSegment(segment.words, 1, start_time, timeline))
             \o ExtractWords(segments, k + 1, start_time, timeline)

\* all_speaker_words.append(...) for the words of one chunk.
StreamAppendDrop(stream, words) == words
StreamAppend(stream, words) == stream \o words

\* ------------------------------------------------------- context prompt
\* all_speaker_words[-50:] keeps this many words.
ContextWords == 50

\* The generic prompt of the first call (the source's sentence is in
\* Russian: "This is a recording of a conversation or an interview.").
DefaultPrompt == "Eto audiozapis besedy ili intervyu."

\* all_speaker_words[:n], the slice from the wrong end.
FirstWords(stream, n) ==
    SubSeq(stream, 1, IF Len(stream) < n THEN Len(stream) ELSE n)

\* all_speaker_words[-n:] for n > 0: the last n entries, all if fewer.
LastWords(stream, n) ==
    SubSeq(stream, (IF Len(stream) < n THEN 0 ELSE Len(stream) - n) + 1, Len(stream))

\* " ".join(last_words)
RECURSIVE Join(_)
Join(last_words) ==
    IF last_words = << >> THEN ""
    ELSE IF Len(last_words) = 1 THEN last_words[1]
    ELSE last_words[1] \o " " \o Join(Tail(last_words))

\* The initial_prompt argument of model.transcribe: previous_context if
\* it is not the empty string, the generic prompt otherwise.
ContextPrompt(stream) ==
    LET last_words == [k \in 1..Len(LastWords(stream, ContextWords)) |->
                          LastWords(stream, ContextWords)[k].word]
        previous_context == IF stream # << >> THEN Join(last_words) ELSE ""
    IN  IF previous_context # "" THEN previous_context ELSE DefaultPrompt

\* ---------------------------------------------------- SegmentAggregator

\* The tokens clean_hallucinations removes.
Hallucinations == {"Korrektor"}

clean_hallucinations(text) == SelectSeq(text, LAMBDA w : w \notin Hallucinations)

\* <<minutes, secs>>, or <<hours, minutes, secs>> from one hour on.
format_timestamp(seconds) ==
    LET hours == seconds \div 3600
        minutes == (seconds % 3600) \div 60
        secs == seconds % 60
    IN  IF hours > 0 THEN << hours, minutes, secs >> ELSE << minutes, secs >>

SpeakerLabel(n) == << "Speaker", n >>

\* The state of the grouping fold: the speaker map as a sequence of raw
\* labels (the k-th one is "Speaker k"), and the segments flushed so far.
LabelOf(speaker_map, raw) ==
    SpeakerLabel(CHOOSE k \in 1..Len(speaker_map) : speaker_map[k] = raw)

Mint(speaker_map, raw) ==
    IF \E k \in 1..Len(speaker_map) : speaker_map[k] = raw
    THEN speaker_map ELSE Append(speaker_map, raw)

\* A flush that keeps the first word of the run only.
FlushOneWord(acc) ==
    LET map == Mint(acc.speaker_map, acc.current_speaker_raw)
        text == clean_hallucinations(<< Head(acc.current_words) >>)
    IN  [acc EXCEPT !.speaker_map = map,
                    !.segments = IF text = << >> THEN @
                                 ELSE Append(@, [start |-> acc.current_start,
                                                 timestamp |-> format_timestamp(acc.current_start),
                                                 text |-> text,
                                                 speaker |-> LabelOf(map, acc.current_speaker_raw)])]

\* Flush the current run of words into a segment.
Flush(acc) ==
    LET map == Mint(acc.speaker_map, acc.current_speaker_raw)
        text == clean_hallucinations(acc.current_words)
    IN  [acc EXCEPT !.speaker_map = map,
                    !.segments = IF text = << >> THEN @
                                 ELSE Append(@, [start |-> acc.current_start,
                                                 timestamp |-> format_timestamp(acc.current_start),
                                                 text |-> text,
                                                 speaker |-> LabelOf(map, acc.current_speaker_raw)])]

RECURSIVE GroupFrom(_, _, _)
GroupFrom(words, k, acc) ==
    IF k > Len(words) THEN Flush(acc)
    ELSE LET sw == words[k]
         IN  IF sw.speaker_raw = acc.current_speaker_raw
             THEN GroupFrom(words, k + 1,
                            [acc EXCEPT !.current_words = Append(@, sw.word)])
             ELSE GroupFrom(words, k + 1,
                            [Flush(acc) EXCEPT !.current_speaker_raw = sw.speaker_raw,
                                               !.current_start = sw.start,
                                               !.current_words = << sw.word >>])

\* final_segments and the speaker map after the grouping pass.
GroupWords(words, speaker_map) ==
    IF words = << >> THEN [speaker_map |-> speaker_map, segments |-> << >>]
    ELSE LET acc == GroupFrom(words, 2,
                        [speaker_map |-> speaker_map, segments |-> << >>,
                         current_speaker_raw |-> words[1].speaker_raw,
                         current_start |-> words[1].start,
                         current_words |-> << words[1].word >>])
         IN  [speaker_map |-> acc.speaker_map, segments |-> acc.segments]

\* No merge: the segments as they were flushed.
SmoothNothing(final_segments, k, smoothed) == final_segments

\* Merge adjacent same-speaker segments.
RECURSIVE Smooth(_, _, _)
Smooth(final_segments, k, smoothed) ==
    IF k > Len(final_segments) THEN smoothed
    ELSE LET seg == final_segments[k]
             n == Len(smoothed)
         IN  IF n > 0 /\ seg.speaker = smoothed[n].speaker
             THEN Smooth(final_segments, k + 1,
                         [smoothed EXCEPT ![n].text = @ \o seg.text])
             ELSE Smooth(final_segments, k + 1, Append(smoothed, seg))

FinalSegments(words) == Smooth(GroupWords(words, << >>).segments, 1, << >>)

\* ------------------------------------------ the live view (server copy)

\* In run_live_transcription the speaker map is a dict (here: the number
\* of the display label of each raw label, 0 when the raw label is not a
\* key) and speaker_counter an int of its own.

\* A minting that does not look for the raw label in the map first.
MintLabelAgain(acc) ==
    [acc EXCEPT !.speaker_counter = @ + 1,
                !.speaker_map[acc.cur_raw] = acc.speaker_counter + 1]

\* `if cur_raw not in speaker_map: speaker_counter += 1; speaker_map[cur_raw] = ...`
MintLabel(acc) ==
    IF acc.speaker_map[acc.cur_raw] # 0 THEN acc
    ELSE [acc EXCEPT !.speaker_counter = @ + 1,
                     !.speaker_map[acc.cur_raw] = acc.speaker_counter + 1]

\* The run of words in hand becomes a segment unless its cleaned text is
\* empty.
FlushRun(acc) ==
    LET a == MintLabel(acc)
        text == clean_hallucinations(a.cur_words)
    IN  [a EXCEPT !.segments =
            IF text = << >> THEN @
            ELSE Append(@, [start |-> a.cur_start,
                            timestamp |-> format_timestamp(a.cur_start),
                            text |-> text,
                            speaker |-> SpeakerLabel(a.speaker_map[a.cur_raw])])]

RECURSIVE GroupRuns(_, _, _)
GroupRuns(speaker_words, k, acc) ==
    IF k > Len(speaker_words) THEN FlushRun(acc)
    ELSE LET sw == speaker_words[k]
         IN  IF sw.speaker_raw = acc.cur_raw
             THEN GroupRuns(speaker_words, k + 1,
                            [acc EXCEPT !.cur_words = Append(@, sw.word)])
             ELSE GroupRuns(speaker_words, k + 1,
                            [FlushRun(acc) EXCEPT !.cur_raw = sw.speaker_raw,
                                                  !.cur_start = sw.start,
                                                  !.cur_words = << sw.word >>])

\* The grouping loop, the same in self_group_words and in the final pass:
\* the segments, the speaker map and the counter it ends with.
GroupBySpeaker(speaker_words, speaker_map, speaker_counter) ==
    IF speaker_words = << >>
    THEN [speaker_map |-> speaker_map, speaker_counter |-> speaker_counter,
          segments |-> << >>]
    ELSE LET acc == GroupRuns(speaker_words, 2,
                        [speaker_map |-> speaker_map, speaker_counter |-> speaker_counter,
                         segments |-> << >>,
                         cur_raw |-> speaker_words[1].speaker_raw,
                         cur_start |-> speaker_words[1].start,
                         cur_words |-> << speaker_words[1].word >>])
         IN  [speaker_map |-> acc.speaker_map, speaker_counter |-> acc.speaker_counter,
              segments |-> acc.segments]

\* self_group_words: the merged segments it returns and the dict it has
\* written to; its speaker_counter is a local int and is lost.
self_group_words(speaker_words, speaker_map, speaker_counter) ==
    LET g == GroupBySpeaker(speaker_words, speaker_map, speaker_counter)
    IN  [speaker_map |-> g.speaker_map, merged |-> Smooth(g.segments, 1, << >>)]

\* len(speaker_map)
MapSize(speaker_map) == Cardinality({raw \in DOMAIN speaker_map : speaker_map[raw] # 0})

\* ------------------------------------------------------------- the state

VARIABLES
    diarization_pipeline,  \* module global: TRUE iff the pipeline was loaded
    model_lock,            \* module global: the thread holding it, or NoThread
    cache,                 \* CACHE_DIR/<stem>_diarize.json, per stem
    chunk_files,           \* the <<stem, i>> with CACHE_DIR/<stem>_chunk_<i>.wav on disk
    pc,                    \* where each thread is in transcribe_file
    file,                  \* file_path of the run of each thread
    task,                  \* the task dict of the run of each thread
    exc,                   \* str(e) of the exception being handled, or ""
    timeline,              \* local of transcribe_file
    natural_chunks,        \* local of transcribe_file
    idx,                   \* the loop variable i (from 0)
    all_speaker_words,     \* local of transcribe_file
    hist,                  \* what the run in progress has done so far (history only)
    planner,               \* the chunk planner run on its own: input and chunks
    resolver,              \* get_speaker_for_word run on its own: input and answer
    aggregator,            \* the live and final grouping of run_live_transcription
    transcriptions,        \* server global: the task dict of each task id
    worker,                \* the threads of upload_file: task id and position
    out_files,             \* the .md and .docx written next to each upload
    response,              \* what POST /update_speaker answered last
    prompter,              \* the context prompt computed on its own: stream and prompt
    uploader,              \* server.py: the task of an upload and its upload_to_s3 thread
    remote                 \* remote_worker.py: the uploads folder and the worker loop

vars == << diarization_pipeline, model_lock, cache, chunk_files, pc, file, task, exc,
           timeline, natural_chunks, idx, all_speaker_words, hist,
           planner, resolver, aggregator,
           transcriptions, worker, out_files, response,
           prompter, uploader, remote >>

\* The functions run on their own.
unit_vars == << planner, resolver, aggregator >>

\* The server of the server copy.
server_vars == << transcriptions, worker, out_files, response >>

\* What no step of transcribe_file touches.
others == << unit_vars, server_vars, prompter, uploader, remote >>

\* The context prompt, the S3 upload and the remote worker.
side_vars == << prompter, uploader, remote >>

\* The variables of transcribe_file and its globals.
engine_vars == << diarization_pipeline, model_lock, cache, chunk_files, pc, file, task,
                 exc, timeline, natural_chunks, idx, all_speaker_words, hist >>

shared == << diarization_pipeline, model_lock, cache, chunk_files >>
locals == << timeline, natural_chunks, idx, all_speaker_words >>

\* A cache file: missing, opened for writing and not yet closed (empty or
\* cut short, not JSON), or holding a complete turn sequence.
Absent == [state |-> "absent", turns |-> << >>]
Partial == [state |-> "partial", turns |-> << >>]
Complete(turns) == [state |-> "complete", turns |-> turns]

NoTask == [filename |-> NoFile, status |-> "none", progress |-> 0,
           result |-> << >>, error |-> ""]

\* The task dict transcribe_file starts from.
NewTask(f) == [filename |-> f, status |-> "diarizing", progress |-> 5,
               result |-> << >>, error |-> ""]

\* The history of the run in progress.  The first three fields are about
\* the call of run_diarization and last until its timeline is taken up.
NoHist == [cache_at_entry |-> Absent,   \* the complete cache entry run_diarization began with
           corrupt_read |-> FALSE,      \* json.load met a file that is not JSON
           diar_calls |-> 0,            \* calls of diarization_pipeline
           no_file_written |-> FALSE,   \* ffmpeg wrote no file for the chunk in hand
           tr_calls |-> << >>,          \* chunks model.transcribe was called for, in order
           initial_prompt |-> "",       \* the prompt of the last model.transcribe call
           raised |-> ""]               \* the collaborator that raised

NoPlan == [stage |-> "none", timeline |-> << >>, duration |-> 0, natural_chunks |-> << >>]
NoQuery == [stage |-> "none", timeline |-> << >>, word_start |-> 0, word_end |-> 0,
            speaker |-> ""]

NoGrouping == [stage |-> "none", all_speaker_words |-> << >>,
               speaker_map |-> [raw \in RawLabels |-> 0], speaker_counter |-> 0,
               result |-> << >>, passes |-> 0,
               engine_result |-> << >>]   \* smoothed of transcribe_file for the same words

\* No function is run on its own.
UnitsIdle ==
    /\ planner = NoPlan
    /\ resolver = NoQuery
    /\ aggregator = NoGrouping

\* transcriptions.get(task_id, {"status": "not_found"})
NotFound == [status |-> "not_found", progress |-> 0, result |-> << >>, error |-> "",
             md_path |-> FALSE]

NoWorker == [task_id |-> NoFile, pc |-> "free", i |-> 0, exc |-> ""]

NoOutput == [md |-> << >>, docx |-> << >>, written |-> FALSE]

\* The server has started: no upload yet.
ServerIdle ==
    /\ transcriptions = [id \in TaskIds |-> NotFound]
    /\ worker = [w \in Workers |-> NoWorker]
    /\ out_files = [id \in TaskIds |-> NoOutput]
    /\ response = "none"

NoPrompt == [stage |-> "none", all_speaker_words |-> << >>, initial_prompt |-> ""]

\* No upload to S3 yet: the task id is not a key of transcriptions.
NoUpload == [pc |-> "none", status |-> "not_found", progress |-> 0,
             file_size |-> 0, uploaded |-> 0]

\* The worker is not started and the uploads folder is empty.
NoRemote == [pc |-> "none", watch |-> FALSE, uploads |-> {}, json |-> {},
             pending |-> << >>, i |-> 0, passes |-> 0, status |-> "none",
             scanned |-> {},      \* history: the .json stems the scan of this pass saw
             failed |-> {},       \* history: the files whose last run ended in error
             saved |-> {}]        \* history: the files that completed and were saved

SideIdle ==
    /\ prompter = NoPrompt
    /\ uploader = NoUpload
    /\ remote = NoRemote

\* The module is loaded and no thread runs transcribe_file.
EngineInit ==
    /\ diarization_pipeline \in BOOLEAN
    /\ model_lock = NoThread
    /\ cache = [s \in Stems |-> Absent]
    /\ chunk_files = {}
    /\ pc = [p \in Threads |-> "idle"]
    /\ file = [p \in Threads |-> NoFile]
    /\ task = [p \in Threads |-> NoTask]
    /\ exc = [p \in Threads |-> ""]
    /\ timeline = [p \in Threads |-> << >>]
    /\ natural_chunks = [p \in Threads |-> << >>]
    /\ idx = [p \in Threads |-> 0]
    /\ all_speaker_words = [p \in Threads |-> << >>]
    /\ hist = [p \in Threads |-> NoHist]

Init == EngineInit /\ UnitsIdle /\ ServerIdle /\ SideIdle

\* ---------------------------------------------------------------- helpers

Goto(p, label) == pc' = [pc EXCEPT ![p] = label]

\* report(status, pct) is two assignments to the task dict.
report_status_reset(t, status) == [t EXCEPT !.status = "pending"]
report_status(t, status) == [t EXCEPT !.status = status]
report_progress(t, pct) == [t EXCEPT !.progress = pct]

\* A percentage that runs from 10 to 100.
ChunkPctTo100(i, n) == 10 + (90 * (i + 1)) \div n

\* pct = 10 + int(((i + 1) / len(natural_chunks)) * 80)
ChunkPctCountdown(i, n) == 10 + (80 * (n - i)) \div n
ChunkPct(i, n) == 10 + (80 * (i + 1)) \div n

\* threading.Lock.acquire blocks until the lock is free.
LockAvailableAlways(lock) == TRUE
LockAvailable(lock) == lock = NoThread

\* The holder of model_lock after an exception has left `with model_lock:`
\* in thread p: __exit__ releases the lock (the first keeps it).
WithExitKeeps(p) == p
WithExit(p) == NoThread

\* An exception leaves the try block for the except clause.
RaiseAndRetry(p, msg) ==
    /\ Goto(p, IF pc[p] = "tr_call" THEN "tr_lock" ELSE "rd_lock")
    /\ exc' = exc
RaiseInTry(p, msg) ==
    /\ Goto(p, "except_status")
    /\ exc' = [exc EXCEPT ![p] = msg]

\* `continue`: on to the next chunk.
Continue(p) ==
    /\ Goto(p, "loop")
    /\ idx' = [idx EXCEPT ![p] = @ + 1]

CurrentChunk(p) == natural_chunks[p][idx[p] + 1]

\* chunk_path = CACHE_DIR / f"{file_path.stem}_chunk_{i}.wav"
chunk_path(p) == << Stem(file[p]), idx[p] >>

\* The cache entry of the file of p, if it is complete.
EntryAtStart(p) ==
    IF cache[Stem(file[p])].state = "complete" THEN cache[Stem(file[p])] ELSE Absent

\* `return task`: the locals of transcribe_file are gone, the run is over.
ReturnTask(p) ==
    /\ hist' = [hist EXCEPT ![p] = NoHist]
    /\ timeline' = [timeline EXCEPT ![p] = << >>]
    /\ natural_chunks' = [natural_chunks EXCEPT ![p] = << >>]
    /\ idx' = [idx EXCEPT ![p] = 0]
    /\ all_speaker_words' = [all_speaker_words EXCEPT ![p] = << >>]

\* ------------------------------------------------------ transcribe_file

\* A caller starts transcribe_file(file_path) on a thread that runs no
\* pipeline: the task dict is created and report("diarizing", 5) repeats
\* its values.
Start(p, f) ==
    /\ pc[p] \in {"idle", "done"}
    /\ Goto(p, "rd_pipeline")
    /\ file' = [file EXCEPT ![p] = f]
    /\ task' = [task EXCEPT ![p] = NewTask(f)]
    /\ exc' = [exc EXCEPT ![p] = ""]
    /\ timeline' = [timeline EXCEPT ![p] = << >>]
    /\ natural_chunks' = [natural_chunks EXCEPT ![p] = << >>]
    /\ idx' = [idx EXCEPT ![p] = 0]
    /\ all_speaker_words' = [all_speaker_words EXCEPT ![p] = << >>]
    /\ hist' = [hist EXCEPT ![p] = NoHist]
    /\ UNCHANGED shared
    /\ UNCHANGED others

\* run_diarization: `if not diarization_pipeline: return []`.
NoPipeline(p) ==
    /\ pc[p] = "rd_pipeline"
    /\ ~diarization_pipeline
    /\ timeline' = [timeline EXCEPT ![p] = << >>]
    /\ hist' = [hist EXCEPT ![p].cache_at_entry = EntryAtStart(p)]
    /\ Goto(p, "report_transcribing")
    /\ UNCHANGED << shared, file, task, exc, natural_chunks, idx, all_speaker_words >>
    /\ UNCHANGED others

HavePipeline(p) ==
    /\ pc[p] = "rd_pipeline"
    /\ diarization_pipeline
    /\ hist' = [hist EXCEPT ![p].cache_at_entry = EntryAtStart(p)]
    /\ Goto(p, "rd_exists")
    /\ UNCHANGED << shared, file, task, exc, locals >>
    /\ UNCHANGED others

\* `if cache_file.exists():`
CacheLookup(p) ==
    /\ pc[p] = "rd_exists"
    /\ Goto(p, IF cache[Stem(file[p])].state = "absent" THEN "rd_convert" ELSE "rd_load")
    /\ UNCHANGED << shared, file, task, exc, locals, hist >>
    /\ UNCHANGED others

\* `return json.load(f)` of a complete cache file.
CacheLoad(p) ==
    /\ pc[p] = "rd_load"
    /\ cache[Stem(file[p])].state = "complete"
    /\ timeline' = [timeline EXCEPT ![p] = cache[Stem(file[p])].turns]
    /\ Goto(p, "report_transcribing")
    /\ UNCHANGED << shared, file, task, exc, natural_chunks, idx, all_speaker_words, hist >>
    /\ UNCHANGED others

\* json.load of a file that is not JSON raises JSONDecodeError.
CacheLoadRaises(p) ==
    /\ pc[p] = "rd_load"
    /\ cache[Stem(file[p])].state = "partial"
    /\ hist' = [hist EXCEPT ![p].corrupt_read = TRUE]
    /\ RaiseInTry(p, "JSONDecodeError")
    /\ UNCHANGED << shared, file, task, locals >>
    /\ UNCHANGED others

\* ffmpeg converts the file to wav and soundfile reads it.
Convert(p) ==
    /\ pc[p] = "rd_convert"
    /\ Goto(p, "rd_lock")
    /\ UNCHANGED << shared, file, task, exc, locals, hist >>
    /\ UNCHANGED others

\* ffmpeg wrote no wav: sf.read raises.
ConvertRaises(p) ==
    /\ pc[p] = "rd_convert"
    /\ RaiseInTry(p, "LibsndfileError")
    /\ UNCHANGED << shared, file, task, locals, hist >>
    /\ UNCHANGED others

\* `with model_lock:` before the diarization call.
AcquireForDiarization(p) ==
    /\ pc[p] = "rd_lock"
    /\ LockAvailable(model_lock)
    /\ model_lock' = p
    /\ hist' = [hist EXCEPT ![p].diar_calls = @ + 1]
    /\ Goto(p, "rd_call")
    /\ UNCHANGED << diarization_pipeline, cache, chunk_files, file, task, exc, locals >>
    /\ UNCHANGED others

\* diarization_pipeline(...) returns; the with block releases the lock.
DiarizeReturns(p) ==
    /\ pc[p] = "rd_call"
    /\ model_lock' = NoThread
    /\ timeline' = [timeline EXCEPT ![p] = DiarizeOutput(file[p])]
    /\ Goto(p, "rd_open")
    /\ UNCHANGED << diarization_pipeline, cache, chunk_files, file, task, exc,
                    natural_chunks, idx, all_speaker_words, hist >>
    /\ UNCHANGED others

\* diarization_pipeline(...) raises; the with block releases the lock.
DiarizeRaises(p) ==
    /\ pc[p] = "rd_call"
    /\ model_lock' = WithExit(p)
    /\ hist' = [hist EXCEPT ![p].raised = "diarization"]
    /\ RaiseInTry(p, "diarization failed")
    /\ UNCHANGED << diarization_pipeline, cache, chunk_files, file, task, locals >>
    /\ UNCHANGED others

\* `open(cache_file, 'w')` creates or truncates the cache file.
CacheOpen(p) ==
    /\ pc[p] = "rd_open"
    /\ cache' = [cache EXCEPT ![Stem(file[p])] = Partial]
    /\ Goto(p, "rd_dump")
    /\ UNCHANGED << diarization_pipeline, model_lock, chunk_files, file, task, exc, locals, hist >>
    /\ UNCHANGED others

\* json.dump(timeline, f) and the close of the file.
CacheDump(p) ==
    /\ pc[p] = "rd_dump"
    /\ cache' = [cache EXCEPT ![Stem(file[p])] = Complete(timeline[p])]
    /\ Goto(p, "report_transcribing")
    /\ UNCHANGED << diarization_pipeline, model_lock, chunk_files, file, task, exc, locals, hist >>
    /\ UNCHANGED others

\* report("transcribing", 10): the status, then the progress.  The call
\* of run_diarization is behind.
ReportTranscribingStatus(p) ==
    /\ pc[p] = "report_transcribing"
    /\ task' = [task EXCEPT ![p] = report_status(@, "transcribing")]
    /\ hist' = [hist EXCEPT ![p] = NoHist]
    /\ Goto(p, "report_transcribing_pct")
    /\ UNCHANGED << shared, file, exc, locals >>
    /\ UNCHANGED others

ReportTranscribingProgress(p) ==
    /\ pc[p] = "report_transcribing_pct"
    /\ task' = [task EXCEPT ![p] = report_progress(@, 10)]
    /\ Goto(p, "plan")
    /\ UNCHANGED << shared, file, exc, locals, hist >>
    /\ UNCHANGED others

\* natural_chunks from the timeline.
PlanFromTimeline(p) ==
    /\ pc[p] = "plan"
    /\ DiarizationChunks(timeline[p]) # << >>
    /\ natural_chunks' = [natural_chunks EXCEPT ![p] = DiarizationChunks(timeline[p])]
    /\ Goto(p, "loop")
    /\ UNCHANGED << shared, file, task, exc, timeline, idx, all_speaker_words, hist >>
    /\ UNCHANGED others

\* `if not natural_chunks:` the fixed chunks over get_duration(file_path).
PlanFallback(p) ==
    /\ pc[p] = "plan"
    /\ DiarizationChunks(timeline[p]) = << >>
    /\ natural_chunks' = [natural_chunks EXCEPT ![p] = FallbackChunks(Duration(file[p]))]
    /\ Goto(p, "loop")
    /\ UNCHANGED << shared, file, task, exc, timeline, idx, all_speaker_words, hist >>
    /\ UNCHANGED others

\* get_duration: ffprobe answers no number and float() raises.
ProbeRaises(p) ==
    /\ pc[p] = "plan"
    /\ DiarizationChunks(timeline[p]) = << >>
    /\ RaiseInTry(p, "ValueError")
    /\ UNCHANGED << shared, file, task, locals, hist >>
    /\ UNCHANGED others

\* The for loop is over: report("aligning", 95), the status first.
ReportAligningStatus(p) ==
    /\ pc[p] = "loop"
    /\ idx[p] >= Len(natural_chunks[p])
    /\ task' = [task EXCEPT ![p] = report_status(@, "aligning")]
    /\ Goto(p, "report_aligning_pct")
    /\ UNCHANGED << shared, file, exc, locals, hist >>
    /\ UNCHANGED others

\* `if duration_s <= 0: continue`
SkipNonPositive(p) ==
    /\ pc[p] = "loop"
    /\ idx[p] < Len(natural_chunks[p])
    /\ CurrentChunk(p).end - CurrentChunk(p).start <= 0
    /\ Continue(p)
    /\ UNCHANGED << shared, file, task, exc, timeline, natural_chunks, all_speaker_words, hist >>
    /\ UNCHANGED others

\* ffmpeg -y writes the chunk file, over an older one if there is one.
ExtractChunk(p) ==
    /\ pc[p] = "loop"
    /\ idx[p] < Len(natural_chunks[p])
    /\ CurrentChunk(p).end - CurrentChunk(p).start > 0
    /\ chunk_files' = chunk_files \cup {chunk_path(p)}
    /\ Goto(p, "tr_lock")
    /\ UNCHANGED << diarization_pipeline, model_lock, cache, file, task, exc, locals, hist >>
    /\ UNCHANGED others

\* ffmpeg writes nothing and no file is at chunk_path:
\* `if not chunk_path.exists(): continue`.
ExtractNoFile(p) ==
    /\ pc[p] = "loop"
    /\ idx[p] < Len(natural_chunks[p])
    /\ CurrentChunk(p).end - CurrentChunk(p).start > 0
    /\ chunk_path(p) \notin chunk_files
    /\ Continue(p)
    /\ UNCHANGED << shared, file, task, exc, timeline, natural_chunks, all_speaker_words, hist >>
    /\ UNCHANGED others

\* ffmpeg writes nothing, but a file an earlier or another run left at
\* chunk_path is there: chunk_path.exists() holds and the run goes on.
ExtractLeftover(p) ==
    /\ pc[p] = "loop"
    /\ idx[p] < Len(natural_chunks[p])
    /\ CurrentChunk(p).end - CurrentChunk(p).start > 0
    /\ chunk_path(p) \in chunk_files
    /\ hist' = [hist EXCEPT ![p].no_file_written = TRUE]
    /\ Goto(p, "tr_lock")
    /\ UNCHANGED << shared, file, task, exc, locals >>
    /\ UNCHANGED others

\* `with model_lock:` before model.transcribe.
AcquireForTranscription(p) ==
    /\ pc[p] = "tr_lock"
    /\ LockAvailable(model_lock)
    /\ model_lock' = p
    /\ hist' = [hist EXCEPT ![p].tr_calls = Append(@, idx[p]),
                            ![p].initial_prompt = ContextPrompt(all_speaker_words[p])]
    /\ Goto(p, "tr_call")
    /\ UNCHANGED << diarization_pipeline, cache, chunk_files, file, task, exc, locals >>
    /\ UNCHANGED others

\* model.transcribe returns and the lock stays with the thread.
TranscribeReturnsHolding(p) ==
    /\ pc[p] = "tr_call"
    /\ Goto(p, "append")
    /\ UNCHANGED << shared, file, task, exc, locals, hist >>
    /\ UNCHANGED others

\* model.transcribe returns; the with block releases the lock.
TranscribeReturns(p) ==
    /\ pc[p] = "tr_call"
    /\ model_lock' = NoThread
    /\ Goto(p, "append")
    /\ UNCHANGED << diarization_pipeline, cache, chunk_files, file, task, exc, locals, hist >>
    /\ UNCHANGED others

\* model.transcribe raises; the with block releases the lock.
TranscribeRaises(p) ==
    /\ pc[p] = "tr_call"
    /\ model_lock' = WithExit(p)
    /\ hist' = [hist EXCEPT ![p].raised = "transcription"]
    /\ RaiseInTry(p, "transcription failed")
    /\ UNCHANGED << diarization_pipeline, cache, chunk_files, file, task, locals >>
    /\ UNCHANGED others

\* The words of result["segments"] join all_speaker_words; the chunk file
\* is removed if it is there.
AppendWords(p) ==
    /\ pc[p] = "append"
    /\ chunk_files' = chunk_files \ {chunk_path(p)}
    /\ all_speaker_words' =
         [all_speaker_words EXCEPT ![p] =
             StreamAppend(@, ExtractWords(TranscribeOutput(file[p], CurrentChunk(p).start),
                                          1, CurrentChunk(p).start, timeline[p]))]
    /\ Goto(p, "report_chunk")
    /\ UNCHANGED << diarization_pipeline, model_lock, cache, file, task, exc,
                    timeline, natural_chunks, idx, hist >>
    /\ UNCHANGED others

\* report("transcribing", pct) at the end of the loop body.
ReportChunk(p) ==
    /\ pc[p] = "report_chunk"
    /\ task' = [task EXCEPT ![p] =
                  report_progress(report_status(@, "transcribing"),
                                  ChunkPct(idx[p], Len(natural_chunks[p])))]
    /\ hist' = [hist EXCEPT ![p].no_file_written = FALSE]
    /\ Continue(p)
    /\ UNCHANGED << shared, file, exc, timeline, natural_chunks, all_speaker_words >>
    /\ UNCHANGED others

ReportAligningProgress(p) ==
    /\ pc[p] = "report_aligning_pct"
    /\ task' = [task EXCEPT ![p] = report_progress(@, 95)]
    /\ Goto(p, "final_result")
    /\ UNCHANGED << shared, file, exc, locals, hist >>
    /\ UNCHANGED others

\* task["result"] = smoothed
FinalResult(p) ==
    /\ pc[p] = "final_result"
    /\ task' = [task EXCEPT ![p].result = FinalSegments(all_speaker_words[p])]
    /\ Goto(p, "final_status")
    /\ UNCHANGED << shared, file, exc, locals, hist >>
    /\ UNCHANGED others

\* task["status"] = "completed"
FinalStatus(p) ==
    /\ pc[p] = "final_status"
    /\ task' = [task EXCEPT ![p].status = "completed"]
    /\ Goto(p, "final_progress")
    /\ UNCHANGED << shared, file, exc, locals, hist >>
    /\ UNCHANGED others

\* task["progress"] = 100; return task
FinalProgress(p) ==
    /\ pc[p] = "final_progress"
    /\ task' = [task EXCEPT ![p].progress = 100]
    /\ Goto(p, "done")
    /\ ReturnTask(p)
    /\ UNCHANGED << shared, file, exc >>
    /\ UNCHANGED others

\* except Exception as e: task["status"] = "error"
ExceptStatus(p) ==
    /\ pc[p] = "except_status"
    /\ task' = [task EXCEPT ![p].status = "error"]
    /\ Goto(p, "except_error")
    /\ UNCHANGED << shared, file, exc, locals, hist >>
    /\ UNCHANGED others

\* task["error"] = str(e); return task
ExceptError(p) ==
    /\ pc[p] = "except_error"
    /\ task' = [task EXCEPT ![p].error = exc[p]]
    /\ Goto(p, "done")
    /\ ReturnTask(p)
    /\ UNCHANGED << shared, file, exc >>
    /\ UNCHANGED others

\* The worker process is started again while no pipeline runs: the module
\* is loaded anew (the diarization pipeline loads or not), the files of
\* the cache directory stay.
Reload ==
    /\ \A p \in Threads : pc[p] \in {"idle", "done"}
    /\ \E p \in Threads : pc[p] = "done"
    /\ diarization_pipeline' \in BOOLEAN
    /\ model_lock' = NoThread
    /\ pc' = [p \in Threads |-> "idle"]
    /\ file' = [p \in Threads |-> NoFile]
    /\ task' = [p \in Threads |-> NoTask]
    /\ exc' = [p \in Threads |-> ""]
    /\ timeline' = [p \in Threads |-> << >>]
    /\ natural_chunks' = [p \in Threads |-> << >>]
    /\ idx' = [p \in Threads |-> 0]
    /\ all_speaker_words' = [p \in Threads |-> << >>]
    /\ hist' = [p \in Threads |-> NoHist]
    /\ UNCHANGED << cache, chunk_files >>
    /\ UNCHANGED others

\* One step of thread p inside transcribe_file.
Step(p) ==
    \/ NoPipeline(p) \/ HavePipeline(p)
    \/ CacheLookup(p) \/ CacheLoad(p) \/ CacheLoadRaises(p)
    \/ Convert(p) \/ ConvertRaises(p)
    \/ AcquireForDiarization(p) \/ DiarizeReturns(p) \/ DiarizeRaises(p)
    \/ CacheOpen(p) \/ CacheDump(p)
    \/ ReportTranscribingStatus(p) \/ ReportTranscribingProgress(p)
    \/ PlanFromTimeline(p) \/ PlanFallback(p) \/ ProbeRaises(p)
    \/ SkipNonPositive(p) \/ ExtractChunk(p) \/ ExtractNoFile(p) \/ ExtractLeftover(p)
    \/ AcquireForTranscription(p) \/ TranscribeReturns(p) \/ TranscribeRaises(p)
    \/ AppendWords(p) \/ ReportChunk(p)
    \/ ReportAligningStatus(p) \/ ReportAligningProgress(p)
    \/ FinalResult(p) \/ FinalStatus(p) \/ FinalProgress(p)
    \/ ExceptStatus(p) \/ ExceptError(p)

Next ==
    \/ \E p \in Threads, f \in Files : Start(p, f)
    \/ \E p \in Threads : Step(p)
    \/ Reload

Spec == Init /\ [][Next]_vars

\* Every thread inside transcribe_file keeps running, and every call it
\* makes returns or raises.  Which waiting thread gets model_lock when it
\* is released is not defined, so acquiring it is only weakly fair.
LiveSpec == Init /\ [][Next]_vars /\ \A p \in Threads : WF_vars(Step(p))

\* The same with a gate that is granted fairly: a thread that finds the
\* lock free again and again gets it.
FirstStart(p, f) == pc[p] = "idle" /\ Start(p, f)

\* Each thread calls transcribe_file once, at any moment.
OneRunNext ==
    \/ \E p \in Threads, f \in Files : FirstStart(p, f)
    \/ \E p \in Threads : Step(p)

FairGateSpec ==
    /\ Init /\ [][OneRunNext]_vars
    /\ \A p \in Threads :
          /\ WF_vars(Step(p))
          /\ SF_vars(AcquireForDiarization(p) \/ AcquireForTranscription(p))

\* ------------------------------------------- the chunk planner by itself

\* The speaker of the k-th turn of an input timeline: two speakers in turn.
SpeakerAt(k) == IF k % 2 = 1 THEN "SPEAKER_00" ELSE "SPEAKER_01"

Spans(grid) == {sp \in grid \X grid : sp[1] < sp[2]}

TimelineOf(spans) == [k \in 1..Len(spans) |-> Turn(spans[k][1], spans[k][2], SpeakerAt(k))]

\* Sorted by start, as annotation.itertracks yields the turns.
OrderedByStart(t) == \A k \in 1..(Len(t) - 1) : t[k].start <= t[k + 1].start

NonOverlapping(t) == \A k \in 1..(Len(t) - 1) : t[k].end <= t[k + 1].start

TimelinesOver(grid) ==
    {t \in {TimelineOf(sp) : sp \in UNION {[1..n -> Spans(grid)] : n \in 0..MaxTurns}} :
        OrderedByStart(t)}

Timelines == TimelinesOver(TimeGrid)

PlannerInputs ==
    {[stage |-> "input", timeline |-> t, duration |-> 0, natural_chunks |-> << >>] :
        t \in Timelines \ {<< >>}}
    \cup {[stage |-> "input", timeline |-> << >>, duration |-> d, natural_chunks |-> << >>] :
            d \in 1..MaxDuration}

PlannerInit ==
    /\ EngineInit
    /\ diarization_pipeline
    /\ resolver = NoQuery
    /\ aggregator = NoGrouping
    /\ ServerIdle
    /\ SideIdle
    /\ planner \in PlannerInputs

\* `if timeline:` the walk over the turns gives the chunks.
PlanNatural ==
    /\ planner.stage = "input"
    /\ DiarizationChunks(planner.timeline) # << >>
    /\ planner' = [planner EXCEPT !.stage = "planned",
                                  !.natural_chunks = DiarizationChunks(planner.timeline)]
    /\ UNCHANGED << engine_vars, server_vars, side_vars, resolver, aggregator >>

\* `if not natural_chunks:` the fixed chunks over the duration.
PlanFixed ==
    /\ planner.stage = "input"
    /\ DiarizationChunks(planner.timeline) = << >>
    /\ planner' = [planner EXCEPT !.stage = "planned",
                                  !.natural_chunks = FallbackChunks(planner.duration)]
    /\ UNCHANGED << engine_vars, server_vars, side_vars, resolver, aggregator >>

PlannerNext == PlanNatural \/ PlanFixed

PlannerSpec == PlannerInit /\ [][PlannerNext]_vars

\* ------------------------------------- get_speaker_for_word by itself

ResolverInputs ==
    {[stage |-> "input", timeline |-> t, word_start |-> w[1], word_end |-> w[2],
      speaker |-> ""] :
        t \in TimelinesOver(ResolverGrid),
        w \in {x \in WordGrid \X WordGrid : x[1] <= x[2]}}

ResolverInit ==
    /\ EngineInit
    /\ diarization_pipeline
    /\ planner = NoPlan
    /\ aggregator = NoGrouping
    /\ ServerIdle
    /\ SideIdle
    /\ resolver \in ResolverInputs

\* raw = get_speaker_for_word(timeline, abs_start, abs_end)
Resolve ==
    /\ resolver.stage = "input"
    /\ resolver' = [resolver EXCEPT
                       !.stage = "resolved",
                       !.speaker = get_speaker_for_word(resolver.timeline,
                                                        resolver.word_start,
                                                        resolver.word_end)]
    /\ UNCHANGED << engine_vars, server_vars, side_vars, planner, aggregator >>

ResolverNext == Resolve

ResolverSpec == ResolverInit /\ [][ResolverNext]_vars

\* ------------------------- the grouping of run_live_transcription by itself
\* (and Phase 3 of transcribe_file on the same words)

\* The words one chunk may add to all_speaker_words: none, or one word
\* (a word or a hallucination) of one raw label.
ChunkWords(n) ==
    {<< >>} \cup {<< SpeakerWord(w, 5 * n, 5 * n + 2, raw) >> :
                     w \in {"hi", "Korrektor"}, raw \in RawLabels}

AggregatorInit ==
    /\ EngineInit
    /\ diarization_pipeline
    /\ planner = NoPlan
    /\ resolver = NoQuery
    /\ ServerIdle
    /\ SideIdle
    /\ aggregator = [NoGrouping EXCEPT !.stage = "live"]

\* The end of one iteration of the chunk loop: the words of the chunk are
\* in all_speaker_words, then
\*   live_segments = self_group_words(all_speaker_words, speaker_map, speaker_counter)
\*   if live_segments: speaker_counter = max(...); result = live_segments
LivePass(words) ==
    /\ aggregator.stage = "live"
    /\ aggregator.passes < MaxPasses
    /\ LET all == aggregator.all_speaker_words \o words
           live == self_group_words(all, aggregator.speaker_map, aggregator.speaker_counter)
       IN  aggregator' =
             [aggregator EXCEPT
                !.all_speaker_words = all,
                !.speaker_map = live.speaker_map,
                !.speaker_counter = IF live.merged # << >>
                                    THEN Max(@, MapSize(live.speaker_map)) ELSE @,
                !.result = IF live.merged # << >> THEN live.merged ELSE @,
                !.passes = @ + 1]
    /\ UNCHANGED << engine_vars, server_vars, side_vars, planner, resolver >>

\* Phase 3: the final grouping over all_speaker_words, with the speaker
\* map and the counter the loop ended with.
FinalPass ==
    /\ aggregator.stage = "live"
    /\ LET g == GroupBySpeaker(aggregator.all_speaker_words, aggregator.speaker_map,
                               aggregator.speaker_counter)
       IN  aggregator' = [aggregator EXCEPT !.stage = "final",
                                            !.speaker_map = g.speaker_map,
                                            !.speaker_counter = g.speaker_counter,
                                            !.result = Smooth(g.segments, 1, << >>)]
    /\ UNCHANGED << engine_vars, server_vars, side_vars, planner, resolver >>

\* Phase 3 of transcribe_file (src/engine.py) once the chunk loop has left
\* these words in all_speaker_words: its speaker_map is still {} and its
\* speaker_counter 0, as no live view is computed there.
EnginePass ==
    /\ aggregator.stage = "live"
    /\ aggregator' = [aggregator EXCEPT
                         !.stage = "engine",
                         !.engine_result = FinalSegments(aggregator.all_speaker_words)]
    /\ UNCHANGED << engine_vars, server_vars, side_vars, planner, resolver >>

AggregatorNext ==
    \/ \E words \in ChunkWords(aggregator.passes) : LivePass(words)
    \/ FinalPass
    \/ EnginePass

AggregatorSpec == AggregatorInit /\ [][AggregatorNext]_vars

\* --------------------------------------------- the server (server copy)

\* The words the chunks of an upload give: one word a chunk, two speakers.
ServerWords(n) ==
    [k \in 1..n |-> SpeakerWord(IF k % 2 = 1 THEN "hi" ELSE "yo", 30 * (k - 1),
                                30 * (k - 1) + 2, SpeakerAt(k))]

\* live_segments after the chunks before n, and smoothed for n = ServerChunks
\* (no segment of these words is dropped, so both are the same grouping).
ServerSegments(n) ==
    self_group_words(ServerWords(n), [raw \in RawLabels |-> 0], 0).merged

ServerInit ==
    /\ EngineInit
    /\ diarization_pipeline
    /\ UnitsIdle
    /\ ServerIdle
    /\ SideIdle

Alive(w) == worker[w].pc # "free"

At(w, label) == worker[w].pc = label

\* A write of the thread w to transcriptions[task_id][key], and its next
\* position.
Write(w, key, value, label) ==
    /\ transcriptions' = [transcriptions EXCEPT ![worker[w].task_id][key] = value]
    /\ worker' = [worker EXCEPT ![w].pc = label]
    /\ UNCHANGED << out_files, response >>

\* An exception inside the try block of run_live_transcription.
Raise(w, msg) ==
    /\ worker' = [worker EXCEPT ![w].pc = "s_except_status", ![w].exc = msg]
    /\ UNCHANGED << transcriptions, out_files, response >>

\* POST /upload: the file is saved, transcriptions[task_id] is set to a new
\* pending dict and a thread is started on run_live_transcription.
upload_file(id, w) ==
    /\ ~Alive(w)
    /\ transcriptions' = [transcriptions EXCEPT ![id] =
            [status |-> "pending", progress |-> 0, result |-> << >>, error |-> "",
             md_path |-> FALSE]]
    /\ worker' = [worker EXCEPT ![w] = [task_id |-> id, pc |-> "s_status_diarizing",
                                         i |-> 0, exc |-> ""]]
    /\ UNCHANGED << engine_vars, unit_vars, side_vars, out_files, response >>

\* transcriptions[task_id]["status"] = "diarizing"
StatusDiarizing(w) ==
    /\ At(w, "s_status_diarizing")
    /\ Write(w, "status", "diarizing", "s_progress_5")
    /\ UNCHANGED << engine_vars, unit_vars, side_vars >>

\* transcriptions[task_id]["progress"] = 5
Progress5(w) ==
    /\ At(w, "s_progress_5")
    /\ Write(w, "progress", 5, "s_diarize")
    /\ UNCHANGED << engine_vars, unit_vars, side_vars >>

\* timeline = run_diarization(file_path) returns.
Diarized(w) ==
    /\ At(w, "s_diarize")
    /\ worker' = [worker EXCEPT ![w].pc = "s_status_transcribing"]
    /\ UNCHANGED << engine_vars, unit_vars, side_vars, transcriptions, out_files, response >>

\* run_diarization raises.
DiarizationFails(w) ==
    /\ At(w, "s_diarize")
    /\ Raise(w, "diarization failed")
    /\ UNCHANGED << engine_vars, unit_vars, side_vars >>

\* transcriptions[task_id]["status"] = "transcribing"
StatusTranscribing(w) ==
    /\ At(w, "s_status_transcribing")
    /\ Write(w, "status", "transcribing", "s_progress_10")
    /\ UNCHANGED << engine_vars, unit_vars, side_vars >>

\* transcriptions[task_id]["progress"] = 10, and the chunks are planned.
Progress10(w) ==
    /\ At(w, "s_progress_10")
    /\ Write(w, "progress", 10, "s_chunk")
    /\ UNCHANGED << engine_vars, unit_vars, side_vars >>

\* One chunk is extracted and transcribed and its words are appended.
ChunkTranscribed(w) ==
    /\ At(w, "s_chunk")
    /\ worker[w].i < ServerChunks
    /\ worker' = [worker EXCEPT ![w].pc = "s_chunk_progress"]
    /\ UNCHANGED << engine_vars, unit_vars, side_vars, transcriptions, out_files, response >>

\* model.transcribe raises.
TranscriptionFails(w) ==
    /\ At(w, "s_chunk")
    /\ worker[w].i < ServerChunks
    /\ Raise(w, "transcription failed")
    /\ UNCHANGED << engine_vars, unit_vars, side_vars >>

\* transcriptions[task_id]["progress"] = 10 + int(((i + 1) / len(natural_chunks)) * 80)
ChunkProgress(w) ==
    /\ At(w, "s_chunk_progress")
    /\ Write(w, "progress", ChunkPct(worker[w].i, ServerChunks), "s_live")
    /\ UNCHANGED << engine_vars, unit_vars, side_vars >>

\* transcriptions[task_id]["result"] = live_segments, and on to the next
\* chunk.
LiveResult(w) ==
    /\ At(w, "s_live")
    /\ transcriptions' = [transcriptions EXCEPT
                             ![worker[w].task_id].result = ServerSegments(worker[w].i + 1)]
    /\ worker' = [worker EXCEPT ![w].pc = "s_chunk", ![w].i = @ + 1]
    /\ UNCHANGED << engine_vars, unit_vars, side_vars, out_files, response >>

\* transcriptions[task_id]["status"] = "aligning"
StatusAligning(w) ==
    /\ At(w, "s_chunk")
    /\ worker[w].i = ServerChunks
    /\ Write(w, "status", "aligning", "s_progress_95")
    /\ UNCHANGED << engine_vars, unit_vars, side_vars >>

\* transcriptions[task_id]["progress"] = 95
Progress95(w) ==
    /\ At(w, "s_progress_95")
    /\ Write(w, "progress", 95, "s_result")
    /\ UNCHANGED << engine_vars, unit_vars, side_vars >>

\* transcriptions[task_id]["result"] = smoothed
ResultSmoothed(w) ==
    /\ At(w, "s_result")
    /\ Write(w, "result", ServerSegments(ServerChunks), "s_save_md")
    /\ UNCHANGED << engine_vars, unit_vars, side_vars >>

\* The .md file is written from the local smoothed.
SaveMd(w) ==
    /\ At(w, "s_save_md")
    /\ out_files' = [out_files EXCEPT ![worker[w].task_id].md = ServerSegments(ServerChunks),
                                      ![worker[w].task_id].written = TRUE]
    /\ worker' = [worker EXCEPT ![w].pc = "s_docx"]
    /\ UNCHANGED << engine_vars, unit_vars, side_vars, transcriptions, response >>

\* generate_docx(task_id) writes the .docx from transcriptions[task_id]["result"].
generate_docx(w) ==
    /\ At(w, "s_docx")
    /\ out_files' = [out_files EXCEPT
                        ![worker[w].task_id].docx = transcriptions[worker[w].task_id].result,
                        ![worker[w].task_id].written = TRUE]
    /\ worker' = [worker EXCEPT ![w].pc = "s_update"]
    /\ UNCHANGED << engine_vars, unit_vars, side_vars, transcriptions, response >>

\* transcriptions[task_id].update({status: completed, progress: 100, ...})
Completed(w) ==
    /\ At(w, "s_update")
    /\ transcriptions' = [transcriptions EXCEPT
                             ![worker[w].task_id].status = "completed",
                             ![worker[w].task_id].progress = 100,
                             ![worker[w].task_id].md_path = TRUE]
    /\ worker' = [worker EXCEPT ![w] = NoWorker]     \* the thread ends
    /\ UNCHANGED << engine_vars, unit_vars, side_vars, out_files, response >>

\* An except block that also empties the result.
ServerExceptStatusClears(w) ==
    /\ At(w, "s_except_status")
    /\ transcriptions' = [transcriptions EXCEPT ![worker[w].task_id].status = "error",
                                                ![worker[w].task_id].result = << >>]
    /\ worker' = [worker EXCEPT ![w].pc = "s_except_error"]
    /\ UNCHANGED << engine_vars, unit_vars, side_vars, out_files, response >>

\* except Exception as e: transcriptions[task_id]["status"] = "error"
ServerExceptStatus(w) ==
    /\ At(w, "s_except_status")
    /\ Write(w, "status", "error", "s_except_error")
    /\ UNCHANGED << engine_vars, unit_vars, side_vars >>

\* transcriptions[task_id]["error"] = str(e)
ServerExceptError(w) ==
    /\ At(w, "s_except_error")
    /\ transcriptions' = [transcriptions EXCEPT ![worker[w].task_id].error = worker[w].exc]
    /\ worker' = [worker EXCEPT ![w] = NoWorker]     \* the thread ends
    /\ UNCHANGED << engine_vars, unit_vars, side_vars, out_files, response >>

\* A rename that puts the new name after the old one.
RenamedAppend(result, old_name, new_name) ==
    [k \in 1..Len(result) |->
        IF result[k].speaker = old_name
        THEN [result[k] EXCEPT !.speaker = old_name \o new_name]
        ELSE result[k]]

\* A rename of the first segment of the old name only.
RenamedFirst(result, old_name, new_name) ==
    [k \in 1..Len(result) |->
        IF result[k].speaker = old_name
           /\ \A j \in 1..(k - 1) : result[j].speaker # old_name
        THEN [result[k] EXCEPT !.speaker = new_name]
        ELSE result[k]]

\* The bulk rename of update_speaker over a result.
Renamed(result, old_name, new_name) ==
    [k \in 1..Len(result) |->
        IF result[k].speaker = old_name THEN [result[k] EXCEPT !.speaker = new_name]
        ELSE result[k]]

\* What update_speaker does to the task dicts tasks, and what it answers:
\* with a task id in transcriptions and a segment index in range the bulk
\* rename and "success", else nothing and "error".
RenameOutcome(tasks, id, segment_index, speaker_name) ==
    IF /\ tasks[id] # NotFound
       /\ 0 <= segment_index /\ segment_index < Len(tasks[id].result)
    THEN LET old_name == tasks[id].result[segment_index + 1].speaker
         IN  [status |-> "success",
              tasks |-> [tasks EXCEPT ![id].result = Renamed(@, old_name, speaker_name)]]
    ELSE [status |-> "error", tasks |-> tasks]

\* POST /update_speaker: the rename, then regenerate_files writes the .md
\* and the .docx from the renamed result; or the error answer.
update_speaker(id, segment_index, speaker_name) ==
    /\ LET outcome == RenameOutcome(transcriptions, id, segment_index, speaker_name)
       IN  /\ transcriptions' = outcome.tasks
           /\ response' = outcome.status
           /\ IF outcome.status = "success"
              THEN out_files' = [out_files EXCEPT ![id] =
                                    [md |-> outcome.tasks[id].result,
                                     docx |-> outcome.tasks[id].result,
                                     written |-> TRUE]]
              ELSE UNCHANGED out_files
    /\ UNCHANGED << engine_vars, unit_vars, side_vars, worker >>

\* One step of the thread w inside run_live_transcription.
WorkerStep(w) ==
    \/ StatusDiarizing(w) \/ Progress5(w) \/ Diarized(w) \/ DiarizationFails(w)
    \/ StatusTranscribing(w) \/ Progress10(w)
    \/ ChunkTranscribed(w) \/ TranscriptionFails(w) \/ ChunkProgress(w) \/ LiveResult(w)
    \/ StatusAligning(w) \/ Progress95(w) \/ ResultSmoothed(w)
    \/ SaveMd(w) \/ generate_docx(w) \/ Completed(w)
    \/ ServerExceptStatus(w) \/ ServerExceptError(w)

ServerNext ==
    \/ \E id \in TaskIds, w \in Workers : upload_file(id, w)
    \/ \E w \in Workers : WorkerStep(w)
    \/ \E id \in TaskIds, segment_index \in SegmentIndexes,
          speaker_name \in SpeakerNames : update_speaker(id, segment_index, speaker_name)

ServerSpec == ServerInit /\ [][ServerNext]_vars

\* ----------------------------------------------------------- properties

Range(seq) == {seq[k] : k \in 1..Len(seq)}

InCall == {"rd_call", "tr_call"}
AtGate == {"rd_lock", "tr_lock"}
InExcept == {"except_status", "except_error"}

\* A step that begins a run of p or ends the process p ran in: what p had
\* before it belongs to an earlier run.
RunBoundary(p) == pc[p] \in {"idle", "done"} /\ pc'[p] # pc[p]

\* C1: at most one inference call (diarization or transcription) is in
\* progress at any instant over all threads, and a thread inside one holds
\* model_lock.
C1_OneInferenceAtATime ==
    /\ Cardinality({p \in Threads : pc[p] \in InCall}) <= 1
    /\ \A p \in Threads : pc[p] \in InCall => model_lock = p

\* One thread is inside model.transcribe while another waits at the gate.
C1_Witness ==
    \E p, q \in Threads : p # q /\ pc[p] = "tr_call" /\ pc[q] \in AtGate

StatusRank(s) == CASE s = "none" -> 0
                   [] s = "pending" -> 1
                   [] s = "diarizing" -> 2
                   [] s = "transcribing" -> 3
                   [] s = "aligning" -> 4
                   [] s = "completed" -> 5
                   [] s = "error" -> 6

Forward(s, t) ==
    \/ t = s
    \/ s # "error" /\ t # "error" /\ StatusRank(t) > StatusRank(s)
    \/ t = "error" /\ s \notin {"completed", "error"}

\* C2: within one run the status of the task only moves forward along
\* pending, diarizing, transcribing, aligning, completed, or goes to error
\* from a status that is not terminal; completed and error never change.
C2_StatusForward ==
    [][\A p \in Threads :
          RunBoundary(p) \/ Forward(task[p].status, task'[p].status)]_vars

\* One run has ended completed and another in error.
C2_Witness ==
    \E p, q \in Threads :
        /\ pc[p] = "done" /\ task[p].status = "completed"
        /\ pc[q] = "done" /\ task[q].status = "error"

\* C3: within one run the progress of the task is a whole number in
\* 0..100 that never decreases, whatever the number of chunks and whether
\* chunks are skipped or not.
C3_ProgressMonotone ==
    /\ \A n \in 1..MaxChunks : \A i \in 0..(n - 1) :
          /\ ChunkPct(i, n) \in 10..90
          /\ i + 1 < n => ChunkPct(i, n) <= ChunkPct(i + 1, n)
    /\ [](\A p \in Threads : task[p].progress \in 0..100)
    /\ [][\A p \in Threads :
             RunBoundary(p) \/ task'[p].progress >= task[p].progress]_vars

\* The chunks the loop of p is past that had a sub-range to extract and
\* were skipped for want of a chunk file.
Skipped(p) ==
    {k \in 0..(idx[p] - 1) :
        /\ natural_chunks[p][k + 1].end - natural_chunks[p][k + 1].start > 0
        /\ k \notin Range(hist[p].tr_calls)}

\* A run is about to end completed with one chunk skipped and a later one
\* reported.
C3_Witness ==
    \E p \in Threads :
        /\ pc[p] = "final_progress"
        /\ task[p].progress = 95
        /\ \E k \in Skipped(p) : \E j \in Range(hist[p].tr_calls) : j > k

\* The words the chunks of `calls` give, in the order of the calls.
RECURSIVE WordsOfCalls(_, _, _)
WordsOfCalls(p, calls, k) ==
    IF k > Len(calls) THEN << >>
    ELSE LET start_time == natural_chunks[p][calls[k] + 1].start
         IN  ExtractWords(TranscribeOutput(file[p], start_time), 1, start_time, timeline[p])
             \o WordsOfCalls(p, calls, k + 1)

Front(seq) == SubSeq(seq, 1, Len(seq) - 1)

\* C4: the chunks of one file are transcribed in chunk order, one call at
\* a time: no two transcription calls of one file are in progress together,
\* the calls of a run go up in chunk number, and when the call for chunk i
\* is requested or in progress the calls for the earlier chunks have
\* returned and the word stream holds their words, in order.
C4_ChunksInOrder ==
    /\ \A f \in Files :
          Cardinality({p \in Threads : pc[p] = "tr_call" /\ file[p] = f}) <= 1
    /\ \A p \in Threads :
          LET calls == hist[p].tr_calls
          IN  /\ \A k \in 1..(Len(calls) - 1) : calls[k] < calls[k + 1]
              /\ pc[p] \in {"tr_call", "append"} =>
                    /\ calls # << >> /\ calls[Len(calls)] = idx[p]
                    /\ all_speaker_words[p] = WordsOfCalls(p, Front(calls), 1)
              /\ pc[p] = "tr_lock" => \A k \in 1..Len(calls) : calls[k] < idx[p]
              /\ pc[p] \in {"loop", "tr_lock", "report_chunk"} =>
                    all_speaker_words[p] = WordsOfCalls(p, calls, 1)

\* The call for the second chunk is in progress after the first returned
\* with words.
C4_Witness ==
    \E p \in Threads :
        /\ pc[p] = "tr_call"
        /\ hist[p].tr_calls = << 0, 1 >>
        /\ all_speaker_words[p] # << >>

FailureMessage(raised) ==
    IF raised = "diarization" THEN "diarization failed" ELSE "transcription failed"

\* C5: once the diarization or the transcription call of a run has raised,
\* the run makes no further inference call (it never again waits for
\* model_lock nor is inside a call) and ends with status error and the
\* message of the failure.
C5_InferenceFailureIsFatal ==
    /\ [](\A p \in Threads :
             hist[p].raised # "" =>
                 /\ pc[p] \in InExcept
                 /\ exc[p] = FailureMessage(hist[p].raised))
    /\ [][\A p \in Threads :
             hist[p].raised # "" =>
                 /\ pc'[p] \in InExcept \cup {"done"}
                 /\ hist'[p].tr_calls \in {hist[p].tr_calls, << >>}
                 /\ hist'[p].diar_calls \in {hist[p].diar_calls, 0}
                 /\ pc'[p] = "done" =>
                       /\ task'[p].status = "error"
                       /\ task'[p].error = FailureMessage(hist[p].raised)]_vars

\* The transcription of the first of two chunks raised and the run is in
\* its except clause without a call for the second.
C5_Witness ==
    \E p \in Threads :
        /\ pc[p] = "except_error"
        /\ file[p] = "a.mp3"
        /\ Len(natural_chunks[p]) = 2
        /\ hist[p].raised = "transcription"
        /\ hist[p].tr_calls = << 0 >>
        /\ task[p].status = "error"

\* C6: a chunk for which the extraction wrote no chunk file is skipped: no
\* transcription call is requested or made for it.
C6_NoChunkFileIsSkipped ==
    \A p \in Threads :
        hist[p].no_file_written => pc[p] \notin {"tr_lock", "tr_call", "append"}

\* C7: a run that finds a complete cache entry for its stem when
\* run_diarization begins makes no diarization call, and the timeline it
\* goes on with is the cached turn sequence.
C7_CacheHitUsesCachedTimeline ==
    \A p \in Threads :
        hist[p].cache_at_entry.state = "complete" =>
            /\ hist[p].diar_calls = 0
            /\ ~hist[p].corrupt_read
            /\ pc[p] = "report_transcribing" => timeline[p] = hist[p].cache_at_entry.turns

\* C8: a run that reads a cache file that is not JSON goes on as for a
\* cache miss: it does not enter the except clause and its task does not
\* go to error.
C8_CorruptCacheIsMiss ==
    \A p \in Threads :
        hist[p].corrupt_read =>
            /\ pc[p] \notin InExcept
            /\ task[p].status # "error"

\* C9: a thread that looks the cache entry of its stem up never meets a
\* partly written file.
C9_CacheWriteAtomic ==
    \A p \in Threads :
        pc[p] \in {"rd_exists", "rd_load"} => cache[Stem(file[p])].state # "partial"

\* C10: a thread waiting for model_lock gets it in the end.
C10_GateStarvationFree ==
    \A p \in Threads : (pc[p] \in AtGate) ~> (model_lock = p)

\* C13: for a timeline of ordered turns that do not overlap, every chunk of
\* the planner starts at the start of a turn and ends at the end of a turn,
\* and no chunk boundary lies strictly inside a turn.
C13_ChunksEndAtTurnEnds ==
    (planner.stage = "planned" /\ planner.timeline # << >>
        /\ NonOverlapping(planner.timeline)) =>
        \A i \in 1..Len(planner.natural_chunks) :
            LET c == planner.natural_chunks[i]
                t == planner.timeline
            IN  /\ \E k \in 1..Len(t) : c.start = t[k].start
                /\ \E k \in 1..Len(t) : c.end = t[k].end
                /\ \A k \in 1..Len(t) :
                      /\ ~(t[k].start < c.start /\ c.start < t[k].end)
                      /\ ~(t[k].start < c.end /\ c.end < t[k].end)

\* Three turns that do not overlap have been planned into two chunks.
C13_Witness ==
    /\ planner.stage = "planned"
    /\ Len(planner.timeline) = 3
    /\ NonOverlapping(planner.timeline)
    /\ Len(planner.natural_chunks) = 2

\* C14: for every timeline ordered by start the chunks of the planner are
\* contiguous and do not overlap: each chunk but the last ends where the
\* next one starts, and the chunks go from the first start to the last end
\* of the turns.
C14_ChunksContiguous ==
    (planner.stage = "planned" /\ planner.timeline # << >>) =>
        LET c == planner.natural_chunks
            t == planner.timeline
        IN  /\ \A i \in 1..(Len(c) - 1) : c[i].end = c[i + 1].start
            /\ c[1].start = t[1].start
            /\ \A k \in 1..Len(t) : t[k].end <= c[Len(c)].end

C15_Timeline ==
    << Turn(0, 5, "SPEAKER_00"), Turn(5, 9, "SPEAKER_01"), Turn(9, 40, "SPEAKER_00") >>

\* C15 as stated: the timeline (0,5,A), (5,9,B), (9,40,A) is planned into
\* the two chunks [0,9) and [9,40).
C15_TwoChunks ==
    (planner.stage = "planned" /\ planner.timeline = C15_Timeline) =>
        planner.natural_chunks = << Chunk(0, 9), Chunk(9, 40) >>

\* C15, amended: the timeline (0,5,A), (5,9,B), (9,40,A) is planned into
\* the one chunk [0,40): the chunk is closed at the end of the turn with
\* which the elapsed span reaches 30 s, which here is the last turn.
C15_OneChunk ==
    (planner.stage = "planned" /\ planner.timeline = C15_Timeline) =>
        planner.natural_chunks = << Chunk(0, 40) >>

\* The timeline of C15 has been planned.
C15_Witness ==
    planner.stage = "planned" /\ planner.timeline = C15_Timeline

\* C16: with an empty timeline and a duration D > 0 the planner gives
\* ceil(D/30) chunks, the i-th (from 0) being [30 i, min(30 (i+1), D)]:
\* each of positive width at most 30, the last ending at D; for D = 65 they
\* are [0,30), [30,60), [60,65).
C16_FallbackChunks ==
    (planner.stage = "planned" /\ planner.timeline = << >>) =>
        LET c == planner.natural_chunks
            D == planner.duration
        IN  /\ Len(c) * ChunkTarget >= D /\ (Len(c) - 1) * ChunkTarget < D
            /\ \A i \in 1..Len(c) :
                  /\ c[i].start = ChunkTarget * (i - 1)
                  /\ c[i].end = (IF ChunkTarget * i <= D THEN ChunkTarget * i ELSE D)
                  /\ c[i].end - c[i].start > 0
                  /\ c[i].end - c[i].start <= ChunkTarget
            /\ c[Len(c)].end = D
            /\ D = 65 => c = << Chunk(0, 30), Chunk(30, 60), Chunk(60, 65) >>

\* The fallback has planned a recording of 65 s.
C16_Witness ==
    /\ planner.stage = "planned"
    /\ planner.timeline = << >>
    /\ planner.duration = 65
    /\ Len(planner.natural_chunks) = 3

\* The length of the part of the word inside the turn (positive when they
\* overlap).
Overlap(turn, word_start, word_end) ==
    Min(word_end, turn.end) - Max(word_start, turn.start)

\* The turns of the query the word lies strictly inside.
Containing ==
    {k \in 1..Len(resolver.timeline) :
        /\ resolver.timeline[k].start < resolver.word_start
        /\ resolver.word_end < resolver.timeline[k].end}

\* C17: a word of any duration, zero included, that lies strictly inside
\* exactly one turn of the timeline gets the speaker of that turn.
C17_InsideOneTurn ==
    (resolver.stage = "resolved" /\ Cardinality(Containing) = 1) =>
        \A k \in Containing : resolver.speaker = resolver.timeline[k].speaker

\* The turns of the query with the greatest positive overlap with the word.
GreatestOverlap ==
    LET t == resolver.timeline
        ov(k) == Overlap(t[k], resolver.word_start, resolver.word_end)
    IN  {k \in 1..Len(t) : ov(k) > 0 /\ \A j \in 1..Len(t) : ov(j) <= ov(k)}

\* C18: when several turns have the same greatest positive overlap with
\* the word, the answer is the speaker of the first of them in timeline
\* order; turns (0-10, X), (10-20, Y) and word (9-11) give X.
C18_TieGoesToFirst ==
    (resolver.stage = "resolved" /\ GreatestOverlap # {}) =>
        LET first == CHOOSE k \in GreatestOverlap : \A j \in GreatestOverlap : k <= j
        IN  resolver.speaker = resolver.timeline[first].speaker

\* Turns (0-10, SPEAKER_00), (10-20, SPEAKER_01) and the word (9-11) have
\* been resolved to SPEAKER_00.
C18_Witness ==
    /\ resolver.stage = "resolved"
    /\ resolver.timeline = << Turn(0, 10, "SPEAKER_00"), Turn(10, 20, "SPEAKER_01") >>
    /\ resolver.word_start = 9 /\ resolver.word_end = 11
    /\ Cardinality(GreatestOverlap) = 2
    /\ resolver.speaker = "SPEAKER_00"

\* C19: get_speaker_for_word answers "Unknown" for the empty timeline; for
\* any other timeline it answers the speaker of one of its turns, never
\* "Unknown", and when no turn overlaps the word that turn is one of least
\* min(|start - mid|, |end - mid|).
C19_Total ==
    resolver.stage = "resolved" =>
        LET t == resolver.timeline
            key(k) == NearKey2(t[k], resolver.word_start, resolver.word_end)
        IN  /\ t = << >> => resolver.speaker = "Unknown"
            /\ t # << >> =>
                  /\ resolver.speaker # "Unknown"
                  /\ \E k \in 1..Len(t) : resolver.speaker = t[k].speaker
                  /\ GreatestOverlap = {} =>
                        \E k \in 1..Len(t) :
                            /\ resolver.speaker = t[k].speaker
                            /\ \A j \in 1..Len(t) : key(k) <= key(j)

\* A word no turn overlaps has been resolved to the second turn, the
\* nearest one.
C19_Witness ==
    /\ resolver.stage = "resolved"
    /\ Len(resolver.timeline) = 2
    /\ GreatestOverlap = {}
    /\ resolver.speaker = resolver.timeline[2].speaker
    /\ resolver.speaker # resolver.timeline[1].speaker

\* C20: within one run the speaker map is injective: two raw labels never
\* have the same display label, after any live passes and the final pass.
C20_SpeakerMapInjective ==
    \A r1, r2 \in RawLabels :
        (r1 # r2 /\ aggregator.speaker_map[r1] # 0 /\ aggregator.speaker_map[r2] # 0) =>
            aggregator.speaker_map[r1] # aggregator.speaker_map[r2]

\* The orchestrator threads that are running for the task id.
Orchestrators(id) == {w \in Workers : Alive(w) /\ worker[w].task_id = id}

\* C11: at any instant at most one orchestrator runs for a task id, a
\* second upload of the same filename during the first run included.
C11_OneOrchestratorPerTask ==
    \A id \in TaskIds : Cardinality(Orchestrators(id)) <= 1

\* status, progress and result of the task dict of id.
TaskState(id) ==
    << transcriptions[id].status, transcriptions[id].progress, transcriptions[id].result >>

\* C12: while the orchestrator of a task runs, status, progress and result
\* of the task change only in steps of that orchestrator: no request
\* handler (a speaker rename, a new upload of the file) changes them.
C12_OnlyOrchestratorWrites ==
    [][\A id \in TaskIds :
          (Orchestrators(id) # {} /\ TaskState(id)' # TaskState(id)) =>
              \E w \in Orchestrators(id) : worker'[w] # worker[w]]_vars

\* ------------------------------------------- properties of the grouping

\* The speaker map a run starts with.
EmptyMap == [raw \in RawLabels |-> 0]

\* The words of the stream that begin a run of one raw label.
RunStarts(words) ==
    {k \in 1..Len(words) : k = 1 \/ words[k - 1].speaker_raw # words[k].speaker_raw}

\* Every segment of the view starts where a run of a raw label starts, and
\* carries the display label the map has for that raw label.
LabelledByMap(view, words, speaker_map) ==
    \A j \in 1..Len(view) :
        \E k \in RunStarts(words) :
            /\ words[k].start = view[j].start
            /\ view[j].speaker = SpeakerLabel(speaker_map[words[k].speaker_raw])

\* C21: within one run the speaker map only grows: a raw label that has a
\* display label keeps it in every later pass, and every live view and the
\* final result label their segments by that map.
C21_SpeakerMapOnlyGrows ==
    [][/\ \A raw \in RawLabels :
             aggregator.speaker_map[raw] # 0 =>
                 aggregator'.speaker_map[raw] = aggregator.speaker_map[raw]
       /\ LabelledByMap(aggregator'.result, aggregator'.all_speaker_words,
                        aggregator'.speaker_map)]_vars

\* The final pass has run after live passes that minted two labels, and the
\* result has segments of both.
C21_Witness ==
    /\ aggregator.stage = "final"
    /\ aggregator.passes >= 2
    /\ MapSize(aggregator.speaker_map) >= 2
    /\ \E i, j \in 1..Len(aggregator.result) :
           aggregator.result[i].speaker # aggregator.result[j].speaker

\* The display labels of the view first appear as Speaker 1, Speaker 2, ...
FirstAppearInOrder(view) ==
    \A j \in 1..Len(view) :
        LET n == view[j].speaker[2]
        IN  n = 1 \/ \E i \in 1..(j - 1) : view[i].speaker = SpeakerLabel(n - 1)

\* C22: the k-th distinct raw label flushed into a segment is "Speaker k":
\* in every result (live views, the final result of the server copy and
\* the result of transcribe_file) the display labels first appear in the
\* order Speaker 1, Speaker 2, ...
C22_LabelsInOrder ==
    /\ FirstAppearInOrder(aggregator.result)
    /\ FirstAppearInOrder(aggregator.engine_result)

RECURSIVE TextOf(_, _)
\* The texts of the segments from the k-th on, one after the other.
TextOf(view, k) ==
    IF k > Len(view) THEN << >> ELSE view[k].text \o TextOf(view, k + 1)

\* The words of the stream, in order.
WordsOf(words) == [k \in 1..Len(words) |-> words[k].word]

\* No two neighbours of the view have one display label; every segment
\* starts where a run of a raw label starts, later than the segment before
\* it, with the timestamp of that start; and the texts, joined, are the
\* cleaned words of the stream (nothing is lost or doubled by a merge).
Merged(view, words) ==
    /\ \A j \in 1..(Len(view) - 1) : view[j].speaker # view[j + 1].speaker
    /\ \A j \in 1..(Len(view) - 1) : view[j].start < view[j + 1].start
    /\ \A j \in 1..Len(view) :
           /\ \E k \in RunStarts(words) : words[k].start = view[j].start
           /\ view[j].timestamp = format_timestamp(view[j].start)
           /\ view[j].text # << >>
    /\ TextOf(view, 1) = clean_hallucinations(WordsOf(words))

\* C23: in every result of the aggregator (each live view, the final
\* result, the result of transcribe_file) no two consecutive segments have
\* the same display label, and a merged segment has the start and
\* timestamp of the first segment of its run and the joined texts.
C23_AdjacentMerged ==
    /\ Merged(aggregator.result, aggregator.all_speaker_words)
    /\ Merged(aggregator.engine_result,
              IF aggregator.stage = "engine" THEN aggregator.all_speaker_words ELSE << >>)

\* A run of one speaker cut in two by a run that cleans to nothing: the two
\* segments were merged into one in the final result.
C23_Witness ==
    /\ aggregator.stage = "final"
    /\ Len(aggregator.all_speaker_words) = 3
    /\ aggregator.all_speaker_words[1].speaker_raw = aggregator.all_speaker_words[3].speaker_raw
    /\ aggregator.all_speaker_words[2].speaker_raw # aggregator.all_speaker_words[1].speaker_raw
    /\ WordsOf(aggregator.all_speaker_words) = << "hi", "Korrektor", "hi" >>
    /\ Len(aggregator.result) = 1
    /\ aggregator.result[1].text = << "hi", "hi" >>
    /\ aggregator.result[1].start = aggregator.all_speaker_words[1].start

\* C24: the final segments depend on the complete word stream only: the
\* final pass after any live passes over prefixes of the stream gives the
\* segments of one final pass started with an empty speaker map.
C24_FinalDependsOnStreamOnly ==
    aggregator.stage = "final" =>
        aggregator.result =
            Smooth(GroupBySpeaker(aggregator.all_speaker_words, EmptyMap, 0).segments,
                   1, << >>)

\* ------------------------------------------- properties of the server

\* C25: a speaker rename applied twice with the same arguments is
\* idempotent: right after a rename that answered success, the same
\* request answers success again and leaves every task as it is.
C25_RenameIdempotent ==
    [][\A id \in TaskIds, segment_index \in SegmentIndexes, speaker_name \in SpeakerNames :
          (/\ worker' = worker       \* no step of a thread, no upload
           /\ update_speaker(id, segment_index, speaker_name)
           /\ response' = "success") =>
              RenameOutcome(transcriptions', id, segment_index, speaker_name) =
                  [status |-> "success", tasks |-> transcriptions']]_vars

\* A rename has answered success and has changed a label.
C25_Witness ==
    /\ response = "success"
    /\ \E id \in TaskIds :
           /\ Len(transcriptions[id].result) = 2
           /\ transcriptions[id].result[1].speaker \in SpeakerNames
           /\ transcriptions[id].result[2].speaker \notin SpeakerNames

\* The request is one update_speaker serves: the task id is a key of
\* transcriptions and the segment index is in range.
Served(id, segment_index) ==
    /\ transcriptions[id] # NotFound
    /\ 0 <= segment_index
    /\ segment_index < Len(transcriptions[id].result)

\* C26: a rename that is served relabels every segment of the task that
\* has the label of the indexed segment and changes nothing else (the
\* other segments, every start, timestamp and text, the number and order
\* of the segments, the other fields and the other tasks); a rename with
\* an unknown task or an index out of range answers error and leaves every
\* task unchanged.
C26_RenameFrame ==
    [][\A id \in TaskIds, segment_index \in SegmentIndexes, speaker_name \in SpeakerNames :
          (/\ worker' = worker       \* no step of a thread, no upload
           /\ update_speaker(id, segment_index, speaker_name)) =>
              IF Served(id, segment_index)
              THEN LET before == transcriptions[id].result
                       after == transcriptions'[id].result
                       old_name == before[segment_index + 1].speaker
                   IN  /\ response' = "success"
                       /\ Len(after) = Len(before)
                       /\ \A k \in 1..Len(before) :
                              /\ after[k].start = before[k].start
                              /\ after[k].timestamp = before[k].timestamp
                              /\ after[k].text = before[k].text
                              /\ after[k].speaker = IF before[k].speaker = old_name
                                                    THEN speaker_name
                                                    ELSE before[k].speaker
                       /\ transcriptions'[id].status = transcriptions[id].status
                       /\ transcriptions'[id].progress = transcriptions[id].progress
                       /\ transcriptions'[id].error = transcriptions[id].error
                       /\ transcriptions'[id].md_path = transcriptions[id].md_path
                       /\ \A other \in TaskIds \ {id} :
                              transcriptions'[other] = transcriptions[other]
              ELSE /\ response' = "error"
                   /\ transcriptions' = transcriptions]_vars

\* A rename has been served on a result whose two segments now have one
\* name, and the files were written again from the renamed result.
C26_Witness ==
    /\ response = "success"
    /\ \E id \in TaskIds :
           /\ Len(transcriptions[id].result) = 2
           /\ transcriptions[id].result[1].speaker = << "Bob" >>
           /\ transcriptions[id].result[2].speaker = << "Bob" >>
           /\ out_files[id].md = transcriptions[id].result

\* The start, timestamp and text of the segments (the labels may have been
\* renamed since).
Unlabelled(view) ==
    [k \in 1..Len(view) |-> << view[k].start, view[k].timestamp, view[k].text >>]

\* C29: in every snapshot a poller can read, status = completed implies
\* progress = 100 and result = the final segments of the recording, never
\* a partial live view.
C29_CompletedIsFinal ==
    \A id \in TaskIds :
        transcriptions[id].status = "completed" =>
            /\ transcriptions[id].progress = 100
            /\ Unlabelled(transcriptions[id].result) =
                   Unlabelled(ServerSegments(ServerChunks))

\* C30: when a run ends in error, its except block leaves the result as
\* the last live view left it (neither cleared nor replaced) and sets the
\* status to error, never to completed.
C30_ErrorKeepsLiveView ==
    [][\A w \in Workers :
          LET id == worker[w].task_id
          IN  /\ ServerExceptStatus(w) =>
                  /\ transcriptions'[id].result = transcriptions[id].result
                  /\ transcriptions'[id].status = "error"
              /\ ServerExceptError(w) =>
                  /\ transcriptions'[id].result = transcriptions[id].result
                  /\ transcriptions'[id].status = transcriptions[id].status
                  /\ transcriptions'[id].error = worker[w].exc]_vars

\* A run has failed in its second chunk and has ended (no thread is left):
\* the task is in error with the live view of the first chunk as its result.
C30_Witness ==
    /\ \A w \in Workers : ~Alive(w)
    /\ \E id \in TaskIds :
           /\ transcriptions[id].status = "error"
           /\ transcriptions[id].error = "transcription failed"
           /\ transcriptions[id].progress = 50
           /\ transcriptions[id].result = ServerSegments(1)

\* ------------------------------- properties of the progress and the views

\* In this step, if it is the report at the end of the body of the chunk
\* loop, the progress reported is 10 + floor(factor * k / n) for the k-th
\* of n chunks.
ReportsLinear(factor) ==
    \A p \in Threads :
        ReportChunk(p) =>
            LET k == idx[p] + 1
                n == Len(natural_chunks[p])
            IN  /\ 1 <= k /\ k <= n
                /\ task'[p].status = "transcribing"
                /\ task'[p].progress = 10 + (factor * k) \div n

\* C27 as stated: after k of n chunks the reported progress is
\* 10 + floor(90 * k / n).
C27_Progress90 == [][ReportsLinear(90)]_vars

\* C27: when the k-th of n chunks has been transcribed (k counts the
\* chunks of the plan, skipped ones included, and a skipped chunk reports
\* nothing) the reported progress is 10 + floor(80 * k / n), which runs
\* from 10 to 90.
C27_Progress80 == [][ReportsLinear(80)]_vars

\* The first of two chunks has been reported (50), and in another run the
\* only chunk (90).
C27_Witness ==
    \E p, q \in Threads :
        /\ pc[p] = "loop" /\ idx[p] = 1 /\ Len(natural_chunks[p]) = 2
        /\ task[p].status = "transcribing" /\ task[p].progress = 50
        /\ pc[q] = "loop" /\ idx[q] = 1 /\ Len(natural_chunks[q]) = 1
        /\ task[q].status = "transcribing" /\ task[q].progress = 90

\* C28: after each chunk whose transcription completes the live view is
\* published: when the transcription of the next chunk is requested, the
\* result of the task is the aggregation of all words appended so far.
C28_LiveViewPublished ==
    \A p \in Threads :
        pc[p] \in {"tr_lock", "tr_call"} =>
            task[p].result = FinalSegments(all_speaker_words[p])

\* ------------------------------------------ properties of the failures

\* C31: only a failure of the diarization or of the transcription
\* collaborator moves a task to status error: a run is in its except
\* clause only when one of these two calls has raised (a failure of the
\* conversion, of the duration probe or of a cache read does not end it).
C31_OnlyInferenceIsFatal ==
    \A p \in Threads :
        pc[p] \in InExcept => hist[p].raised \in {"diarization", "transcription"}

\* ------------------------------------------------------------ PromptSpec
\* The context prompt on its own, over streams longer than the engine
\* runs above accumulate.
MaxStream == 52

Vocabulary == << "da", "net", "vot" >>

\* A stream of n words whose texts go round the vocabulary from a phase.
StreamOf(n, phase) ==
    [k \in 1..n |-> SpeakerWord(Vocabulary[((k + phase) % Len(Vocabulary)) + 1],
                                k, k + 1, "SPEAKER_00")]

PromptInit ==
    /\ EngineInit
    /\ UnitsIdle
    /\ ServerIdle
    /\ uploader = NoUpload
    /\ remote = NoRemote
    /\ \E n \in 0..MaxStream : \E phase \in 0..(Len(Vocabulary) - 1) :
          prompter = [stage |-> "stream", all_speaker_words |-> StreamOf(n, phase),
                      initial_prompt |-> ""]

\* The lines between chunk_path.exists() and model.transcribe.
BuildPrompt ==
    /\ prompter.stage = "stream"
    /\ prompter' = [prompter EXCEPT !.stage = "prompt",
                                    !.initial_prompt = ContextPrompt(prompter.all_speaker_words)]
    /\ UNCHANGED << engine_vars, unit_vars, server_vars, uploader, remote >>

PromptNext == BuildPrompt

PromptSpec == PromptInit /\ [][PromptNext]_vars

\* ------------------------------------------- properties of the prompt
\* The text of the words k..n of the stream, each followed by the
\* separator except the last.
RECURSIVE TextFrom(_, _)
TextFrom(stream, k) ==
    IF k > Len(stream) THEN ""
    ELSE IF k = Len(stream) THEN stream[k].word
    ELSE stream[k].word \o " " \o TextFrom(stream, k + 1)

\* C32: the context prompt of a transcription call is the space-joined
\* texts of the last min(50, n) words of the stream accumulated so far,
\* in stream order (n the length of the stream), and the generic default
\* prompt when n = 0.
C32_ContextPrompt ==
    prompter.stage = "prompt" =>
        LET n == Len(prompter.all_speaker_words)
            m == IF n < 50 THEN n ELSE 50
        IN  prompter.initial_prompt =
                IF n = 0 THEN DefaultPrompt
                ELSE TextFrom(prompter.all_speaker_words, n - m + 1)

\* A prompt built from a stream of more than 50 words.
C32_Witness ==
    /\ prompter.stage = "prompt"
    /\ Len(prompter.all_speaker_words) > ContextWords
    /\ prompter.initial_prompt # DefaultPrompt

\* ------------------------------------------------------------ WorkerSpec
\* remote_worker.py: the worker scans uploads/, runs transcribe_file on
\* every pending file and saves the results of the completed runs.
WorkerFiles == {"a.mp3", "a.wav", "b.mp3"}

\* sorted(pending) orders the paths.
SortedFiles == << "a.mp3", "a.wav", "b.mp3" >>

\* Scans of one worker the model follows.
MaxWorkerPasses == 3

\* Every audio file of uploads/, with or without a .json.
FindAllFiles(uploads, json) ==
    SelectSeq(SortedFiles, LAMBDA f : f \in uploads)

\* find_pending_files: the audio files of uploads/ without a same-stem
\* .json, sorted.
find_pending_files(uploads, json) ==
    SelectSeq(SortedFiles, LAMBDA f : f \in uploads /\ Stem(f) \notin json)

WorkerInit ==
    /\ EngineInit
    /\ UnitsIdle
    /\ ServerIdle
    /\ prompter = NoPrompt
    /\ uploader = NoUpload
    /\ \E watch \in BOOLEAN : \E uploads \in SUBSET WorkerFiles :
          remote = [NoRemote EXCEPT !.pc = "scan", !.watch = watch, !.uploads = uploads]

WorkerFrame == UNCHANGED << engine_vars, unit_vars, server_vars, prompter, uploader >>

\* Somebody puts an audio file into uploads/ (the server's upload_file,
\* or move_stray_files of the scripts worker).
Arrive(f) ==
    /\ remote.pc \in {"scan", "run", "sleep"}
    /\ f \notin remote.uploads
    /\ remote' = [remote EXCEPT !.uploads = @ \cup {f}]
    /\ WorkerFrame

\* Where process_all goes after the file at position i: the next file, or
\* back to __main__, which sleeps in watch mode and ends otherwise.
AfterFile(r, i, n) ==
    IF i < n THEN [r EXCEPT !.i = i + 1]
    ELSE [r EXCEPT !.i = 0, !.pc = IF r.watch THEN "sleep" ELSE "exit"]

\* pending = find_pending_files() at the head of process_all.
Scan ==
    /\ remote.pc = "scan"
    /\ remote.passes < MaxWorkerPasses
    /\ LET pending == find_pending_files(remote.uploads, remote.json)
           r == [remote EXCEPT !.pending = pending, !.scanned = remote.json,
                               !.passes = @ + 1, !.status = "none"]
       IN  remote' = IF pending = << >>
                     THEN AfterFile(r, 0, 0)
                     ELSE [r EXCEPT !.pc = "run", !.i = 1]
    /\ WorkerFrame

\* transcribe_file returns a completed task; save_results writes the
\* .md, the .docx and the .json next to the audio.
RunCompleted ==
    /\ remote.pc = "run"
    /\ LET f == remote.pending[remote.i]
       IN  remote' = AfterFile([remote EXCEPT !.status = "completed",
                                              !.json = @ \cup {Stem(f)},
                                              !.saved = @ \cup {f},
                                              !.failed = @ \ {f}],
                               remote.i, Len(remote.pending))
    /\ WorkerFrame

\* transcribe_file returns a task with status error: the worker prints
\* the failure and writes nothing.
RunFailed ==
    /\ remote.pc = "run"
    /\ LET f == remote.pending[remote.i]
       IN  remote' = AfterFile([remote EXCEPT !.status = "error",
                                              !.failed = @ \cup {f}],
                               remote.i, Len(remote.pending))
    /\ WorkerFrame

\* time.sleep(5) ends and the while loop calls process_all again.
Wake ==
    /\ remote.pc = "sleep"
    /\ remote' = [remote EXCEPT !.pc = "scan"]
    /\ WorkerFrame

WorkerNext ==
    \/ \E f \in WorkerFiles : Arrive(f)
    \/ Scan
    \/ RunCompleted
    \/ RunFailed
    \/ Wake

WorkerSpec == WorkerInit /\ [][WorkerNext]_vars

\* ------------------------------------------- properties of the worker
\* This step is a call of transcribe_file on f.
Transcribes(f) ==
    /\ remote.pc = "run"
    /\ remote.pending[remote.i] = f
    /\ remote'.status # "none"
    /\ remote' # remote
    /\ remote'.uploads = remote.uploads

\* C33: over any number of passes, a file is transcribed in a pass only
\* if it had no same-stem .json when the pass scanned the folder, and a
\* file that completed and was saved is never returned by
\* find_pending_files again nor transcribed again.
C33_SavedNeverPending ==
    [][/\ \A f \in WorkerFiles :
            Transcribes(f) => Stem(f) \notin remote.scanned /\ f \notin remote.saved
       /\ remote.pc = "scan" /\ remote'.passes = remote.passes + 1
            => \A k \in 1..Len(remote'.pending) : remote'.pending[k] \notin remote.saved]_vars

\* A pass scans the folder after a file was saved and another file waits.
C33_Witness ==
    /\ remote.passes >= 2
    /\ remote.pc = "run"
    /\ remote.saved # {}
    /\ remote.saved \subseteq remote.uploads

\* C34: a file whose run ended in error is not run again unless a new
\* run is requested: the worker, in watch mode too, does not call
\* transcribe_file on a file whose last run failed.
C34_NoAutomaticRerun ==
    [][\A f \in WorkerFiles : Transcribes(f) => f \notin remote.failed]_vars

\* ------------------------------------------------------------ UploadSpec
\* server.py: POST /upload and the upload_to_s3 thread it starts.
\* Sizes are counted in blocks of the transfer.
MaxFileSize == 40

FileSizes == {1, 10, MaxFileSize}

\* The most blocks one call of the transfer callback reports.
MaxPart == 4

\* int((uploaded / file_size) * 90) in double arithmetic: the floor of
\* 90 * uploaded / file_size, except that 7/10 * 90 is 62.99999999999999
\* (the only such ratio for sizes below 45).
UploadPct(uploaded, file_size) ==
    IF 10 * uploaded = 7 * file_size THEN 62
    ELSE (90 * uploaded) \div file_size

UploadInit ==
    /\ EngineInit
    /\ UnitsIdle
    /\ ServerIdle
    /\ prompter = NoPrompt
    /\ remote = NoRemote
    /\ uploader = NoUpload

UploadFrame == UNCHANGED << engine_vars, unit_vars, server_vars, prompter, remote >>

\* upload_file when no same-stem .json is on disk: the task is created
\* and the thread is started.
UploadFileNew(file_size) ==
    /\ uploader.pc = "none"
    /\ uploader' = [pc |-> "start", status |-> "uploading", progress |-> 0,
                    file_size |-> file_size, uploaded |-> 0]
    /\ UploadFrame

\* upload_file when the .json of an earlier transcription is on disk:
\* the task is what the file holds and no thread is started.
UploadFileKnown(file_size) ==
    /\ uploader.pc = "none"
    /\ uploader' = [pc |-> "loaded", status |-> "completed", progress |-> 100,
                    file_size |-> file_size, uploaded |-> 0]
    /\ UploadFrame

\* transcriptions[task_id]["status"] = "uploading"
SetUploading ==
    /\ uploader.pc = "start"
    /\ uploader' = [uploader EXCEPT !.pc = "five", !.status = "uploading"]
    /\ UploadFrame

\* transcriptions[task_id]["progress"] = 5, then stat() and uploaded = 0.
SetFive ==
    /\ uploader.pc = "five"
    /\ uploader' = [uploader EXCEPT !.pc = "transfer", !.progress = 5, !.uploaded = 0]
    /\ UploadFrame

\* progress_callback(bytes_transferred), called by s3.upload_file.
ProgressCallback(bytes_transferred) ==
    /\ uploader.pc = "transfer"
    /\ uploader.uploaded + bytes_transferred <= uploader.file_size
    /\ LET uploaded == uploader.uploaded + bytes_transferred
           pct == Min(UploadPct(uploaded, uploader.file_size), 90)
       IN  uploader' = [uploader EXCEPT !.uploaded = uploaded, !.progress = pct]
    /\ UploadFrame

\* s3.upload_file returns: status "uploaded".
SetUploaded ==
    /\ uploader.pc = "transfer"
    /\ uploader.uploaded = uploader.file_size
    /\ uploader' = [uploader EXCEPT !.pc = "hundred", !.status = "uploaded"]
    /\ UploadFrame

\* transcriptions[task_id]["progress"] = 100 and the s3_key.
SetHundred ==
    /\ uploader.pc = "hundred"
    /\ uploader' = [uploader EXCEPT !.pc = "done", !.progress = 100]
    /\ UploadFrame

\* s3.upload_file raises: `except Exception` sets status error.
UploadRaises ==
    /\ uploader.pc = "transfer"
    /\ uploader' = [uploader EXCEPT !.pc = "done", !.status = "error"]
    /\ UploadFrame

UploadNext ==
    \/ \E file_size \in FileSizes : UploadFileNew(file_size) \/ UploadFileKnown(file_size)
    \/ SetUploading
    \/ SetFive
    \/ \E bytes_transferred \in 1..MaxPart : ProgressCallback(bytes_transferred)
    \/ SetUploaded
    \/ SetHundred
    \/ UploadRaises

UploadSpec == UploadInit /\ [][UploadNext]_vars

\* ------------------------------------------- properties of the upload
\* C35: during a background S3 upload the progress never decreases
\* between snapshots: once upload_to_s3 has set status uploading and
\* progress 5, every later value is at least the previous one, is at
\* most 90 while the status is uploading, and is 100 only with status
\* uploaded.
C35_UploadProgressMonotone ==
    [][uploader.pc \in {"transfer", "hundred"} =>
          /\ uploader'.progress >= uploader.progress
          /\ uploader'.status = "uploading" => uploader'.progress <= 90
          /\ uploader'.progress = 100 => uploader'.status = "uploaded"]_vars

\* ------------------------------------- properties of the conservation
\* The position in the stream of the first word of the j-th segment, when
\* the segments hold the words of the stream one after the other.
FirstWordOf(view, j) == Len(TextOf(SubSeq(view, 1, j - 1), 1)) + 1

\* C36: when the cleanup removes nothing, the texts of the final
\* segments, joined in order, are the texts of the word stream joined in
\* order (no word lost, doubled or moved), the start of each segment is
\* the start of its first word, and no segment has an empty text.
C36_WordsConserved ==
    LET words == aggregator.all_speaker_words
        view == aggregator.engine_result
    IN  /\ aggregator.stage = "engine"
        /\ clean_hallucinations(WordsOf(words)) = WordsOf(words)
        => /\ TextOf(view, 1) = WordsOf(words)
           /\ \A j \in 1..Len(view) :
                 /\ view[j].text # << >>
                 /\ view[j].start = words[FirstWordOf(view, j)].start

\* A final result of two segments, the first of two words, from a stream
\* the cleanup leaves alone.
C36_Witness ==
    /\ aggregator.stage = "engine"
    /\ clean_hallucinations(WordsOf(aggregator.all_speaker_words))
         = WordsOf(aggregator.all_speaker_words)
    /\ Len(aggregator.engine_result) = 2
    /\ Len(aggregator.engine_result[1].text) = 2

\* ------------------------------------------- properties of the gate
\* C37: the gate is never left held by a finished call: when a
\* diarization or transcription call raises while it holds model_lock,
\* the lock is released before the task is marked error, so that a thread
\* waiting at the gate can acquire it; in every reachable state the lock
\* is held only by a thread that is inside an inference call.
C37_LockOnlyInsideCall ==
    /\ \A p \in Threads : model_lock = p => pc[p] \in InCall
    /\ \A p \in Threads : pc[p] \in InExcept \/ task[p].status = "error" => model_lock # p
    /\ \A p, q \in Threads :
          /\ pc[p] \in InExcept
          /\ pc[q] \in AtGate
          /\ \A r \in Threads : pc[r] \notin InCall
          => LockAvailable(model_lock)

\* The call of one thread raised, and the other thread has since acquired
\* the lock and is inside its own call.
C37_Witness ==
    \E p, q \in Threads :
        /\ p # q
        /\ pc[p] \in InExcept
        /\ hist[p].raised \in {"diarization", "transcription"}
        /\ pc[q] \in InCall
        /\ model_lock = q

\* ------------------------------------- properties of the termination
\* C38: every started run of the pipeline ends: if every collaborator
\* call returns or raises and the gate is granted fairly, each thread
\* inside transcribe_file reaches status completed or error, whatever
\* the other threads do and however many chunks the plan has.
C38_RunsTerminate ==
    \A p \in Threads :
        (pc[p] \notin {"idle", "done"})
            ~> (pc[p] = "done" /\ task[p].status \in {"completed", "error"})

\* A run of several chunks came to its end while the other thread was
\* inside transcribe_file too.
C38_Witness ==
    \E p, q \in Threads :
        /\ p # q
        /\ pc[p] = "done"
        /\ task[p].status = "completed"
        /\ Len(task[p].result) >= 1
        /\ pc[q] \notin {"idle", "done"}

\* ------------------------------------------- properties of the cache
\* C39: the timeline a thread uses for a file was produced by diarizing
\* that file: a cache entry loaded for a file was written by a
\* diarization of that file, also when two files of one stem and
\* different extensions are processed.
C39_TimelineOfSameFile ==
    \A p \in Threads :
        timeline[p] # << >> => timeline[p] = DiarizeOutput(file[p])

\* ----------------------------------------- properties of the renames
\* C40: the merge of neighbours survives the renames: after any sequence
\* of successful speaker renames on a completed task, no two consecutive
\* segments of its result have the same display label.
C40_RenamesKeepMerged ==
    \A id \in TaskIds :
        /\ transcriptions[id] # NotFound
        /\ transcriptions[id].status = "completed"
        /\ response = "success"
        => \A j \in 1..(Len(transcriptions[id].result) - 1) :
               transcriptions[id].result[j].speaker # transcriptions[id].result[j + 1].speaker
====
